---- MODULE Spec2Model ----
(***************************************************************************)
(* Deployment orchestrator of deployotron                                  *)
(* (src-tauri/src/application/orchestrator.rs).                            *)
(*                                                                         *)
(* One run of DeploymentOrchestrator::run_deployment is modelled as a     *)
(* record "run": the local Deployment struct, the deployments table of    *)
(* the record store, the ordered log of everything the run did (port      *)
(* calls, record-store writes, emitted progress events), and the position *)
(* of the run.  The ports, the record store and the event sink are the    *)
(* environment: every call may succeed or fail, and the values a port     *)
(* returns are drawn from small sets.                                      *)
(*                                                                         *)
(* "twin" is a second run that is fed exactly the same environment        *)
(* answers as "run", except for the answer of GitOperations::             *)
(* cleanup_repository, which is chosen independently for each of the two. *)
(***************************************************************************)
EXTENDS Integers, Sequences, FiniteSets, TLC

VARIABLES project, debug_build, health_src, run, twin

\* The shadow world: the ShadowConfig of the mock ports, the ShadowState they
\* share, the directories on disk the mock ports read and write, and the
\* trace of the calls made on the mock ports.
VARIABLES config, shadow, fs, trace

\* The tasks that run concurrently on one record store and one ShadowState:
\* for each its position, what it has read, the lock operations it has yet
\* to make and the locks it holds.
VARIABLES tasks

vars == <<project, debug_build, health_src, run, twin,
          config, shadow, fs, trace, tasks>>

(***************************************************************************)
(* Bounds of the model.                                                    *)
(***************************************************************************)
\* Number of initial health polls whose snapshot the compute port chooses
\* freely; afterwards the port repeats its last snapshot, reports healthy,
\* or fails.
HealthSettle == 2

\* Calls made on the mock ports in one behaviour.
MaxCalls == 2

\* Largest desired_count a caller deploys a service with.
MaxDesired == 2

\* The number of concurrent tasks.
MaxTasks == 2

(***************************************************************************)
(* Program constants.                                                      *)
(***************************************************************************)
max_attempts == 30

U8Modulus == 256

\* Option<T>: None is the empty sequence, Some(x) the sequence of x alone.
None == << >>

Some(x) == <<x>>

\* chrono::Utc::now().timestamp()
Now == "now"

DeploymentId == "dep-1"

Frameworks == {"NextJs", "Python"}

\* Checkout paths a clone can return; the second one is not valid UTF-8.
Utf8Path == "/tmp/deployotron/app"

NonUtf8Path == "/tmp/deployotron/non-utf8"

Paths == {Utf8Path, NonUtf8Path}

\* PathBuf::to_str gives None for a path that is not valid UTF-8.
to_str(path) == IF path = NonUtf8Path THEN None ELSE Some(path)

TaskArn == "arn:task-definition/app-task:1"

\* Commit SHAs the source-control port can return (7, 8 and 12 characters).
Shas == { <<"a","1","b","2","c","3","d">>,
          <<"a","1","b","2","c","3","d","4">>,
          <<"f","0","e","9","d","8","c","7","b","6","a","5">> }

PlaceholderSha == <<"p","e","n","d","i","n","g">>

CommitMessage == "Initial commit"

\* ServiceHealth as both implementations of the compute port build it.
ServiceHealth(running, desired, pending) ==
    [ running_count |-> running,
      desired_count |-> desired,
      pending_count |-> pending,
      is_healthy    |-> (running = desired /\ pending = 0) ]

\* Snapshots the compute port can return.
Healths == { ServiceHealth(0, 1, 1),
             ServiceHealth(1, 2, 1),
             ServiceHealth(3, 2, 0),
             ServiceHealth(17, 1, 0),
             ServiceHealth(1, 1, 0) }

(***************************************************************************)
(* Values.                                                                 *)
(***************************************************************************)
OrchestratorError(kind, msg) == [tag |-> "Err", kind |-> kind, msg |-> msg]

Ok(id) == [tag |-> "Ok", kind |-> "DeploymentId", msg |-> id]

NoResult == [tag |-> "none", kind |-> "", msg |-> ""]

\* The wrappers of the orchestrator map a port error to its own error type:
\* GitError for the source-control port, AwsError for the compute port.
GitOps == {"clone_repository", "detect_framework", "get_commit_info"}

PortError(op) ==
    OrchestratorError(IF op \in GitOps THEN "GitError" ELSE "AwsError", op)

TimeoutMessage == "Deployment timeout: service did not become healthy"

\* One entry of the ordered log of a run.
Entry(kind, op, ok, num, arg) ==
    [kind |-> kind, op |-> op, ok |-> ok, num |-> num, arg |-> arg]

Call(op, ok, num, arg) == Entry("call", op, ok, num, arg)

Min(a, b) == IF a < b THEN a ELSE b

Max(a, b) == IF a < b THEN b ELSE a

\* Rust integer division truncates toward zero.
TruncDiv(a, b) == IF a >= 0 THEN a \div b ELSE -((-a) \div b)

\* "x as u8" on an i32.
AsU8(x) == x % U8Modulus

\* &sha[..8]: the slice panics when the string is shorter than 8 bytes.
ShaPrefixPanics(sha) == Len(sha) < 8

ShaPrefix(sha) == SubSeq(sha, 1, 8)

Deployment_new(project_id, commit_sha, commit_message, image_tag) ==
    [ id            |-> DeploymentId,
      project_id    |-> project_id,
      status        |-> "Pending",
      commit_sha    |-> commit_sha,
      commit_message |-> commit_message,
      image_tag     |-> image_tag,
      completed_at  |-> None,
      error_message |-> None ]

get_framework_port(framework) ==
    CASE framework \in {"NextJs", "React", "Node"} -> 3000
      [] framework = "Python" -> 8000
      [] framework = "Ruby" -> 3000
      [] framework = "Go" -> 8080
      [] framework = "Rust" -> 8080
      [] OTHER -> 8080

(***************************************************************************)
(* A run.                                                                  *)
(***************************************************************************)
NoDeployment == Deployment_new("", PlaceholderSha, None, <<"", "">>)

InitRun ==
    [ pc          |-> "initialize",
      deployment  |-> NoDeployment,
      deployments |-> << >>,
      log         |-> << >>,
      result      |-> NoResult,
      repo_path   |-> "",
      framework   |-> "",
      sha         |-> << >>,
      task_arn    |-> "",
      attempts    |-> 0 ]

Returned(r) == r.pc \in {"returned", "panicked"}

Log(r, e) == [r EXCEPT !.log = Append(@, e)]

Goto(r, pc) == [r EXCEPT !.pc = pc]

Return(r, res) == [r EXCEPT !.pc = "returned", !.result = res]

Panic(r) == [r EXCEPT !.pc = "panicked"]

(***************************************************************************)
(* Record store (infrastructure/database.rs).                              *)
(***************************************************************************)
Row(d) ==
    [ status         |-> d.status,
      commit_sha     |-> d.commit_sha,
      commit_message |-> d.commit_message,
      completed_at   |-> d.completed_at,
      error_message  |-> d.error_message ]

\* INSERT INTO deployments: every column of the struct is stored.
create_deployment(table, d) == (d.id :> Row(d)) @@ table

\* UPDATE deployments SET status, commit_message, completed_at,
\* error_message, logs WHERE id: commit_sha is not among the columns set.
update_deployment_row(table, d) ==
    [table EXCEPT ![d.id] =
        [@ EXCEPT !.status         = d.status,
                  !.commit_message = d.commit_message,
                  !.completed_at   = d.completed_at,
                  !.error_message  = d.error_message]]

DbWrite(op, ok, d) == Entry("db", op, ok, 0, d.status)

(***************************************************************************)
(* Helper methods of the orchestrator.  Each takes the run and the answer *)
(* of the environment, and gives the run after the call.  A call site of  *)
(* the source that applies "?" to the call returns from run_deployment    *)
(* when the call failed: that is the "returned" position.                  *)
(***************************************************************************)
\* emit_progress(...).await? : every call site applies "?".
emit_progress(r, message, progress, emit_ok) ==
    IF emit_ok
    THEN Log(r, Entry("emit", message, TRUE, progress, ""))
    ELSE Return(r, OrchestratorError("EventError", "emit failed"))

\* update_deployment(...).await? : every call site applies "?".
update_deployment(r, db_ok) ==
    IF db_ok /\ r.deployment.id \in DOMAIN r.deployments
    THEN Log([r EXCEPT !.deployments =
                 update_deployment_row(@, r.deployment)],
             DbWrite("update_deployment", TRUE, r.deployment))
    ELSE Return(Log(r, DbWrite("update_deployment", FALSE, r.deployment)),
                OrchestratorError("DatabaseError", "update failed"))

\* let _ = self.git_service.cleanup_repository(repo_path).await;
cleanup_repository(r, cleanup_ok) ==
    Log(r, Call("cleanup_repository", cleanup_ok, 0, r.repo_path))

\* fail_deployment that sets no completion timestamp.
fail_deployment_NoTimestamp(r, error, db_ok, emit_ok) ==
    LET r1 == [r EXCEPT !.deployment.status = "Failed",
                        !.deployment.error_message = Some(error)]
        r2 == update_deployment(r1, db_ok)
    IN  IF Returned(r2) THEN r2
        ELSE emit_progress(r2, "Deployment failed", 0, emit_ok)

fail_deployment(r, error, db_ok, emit_ok) ==
    LET r1 == [r EXCEPT !.deployment.status = "Failed",
                        !.deployment.completed_at = Some(Now),
                        !.deployment.error_message = Some(error)]
        r2 == update_deployment(r1, db_ok)
    IN  IF Returned(r2) THEN r2
        ELSE emit_progress(r2, "Deployment failed", 0, emit_ok)

\* format!("<label>: {}", e) with the Display text of the OrchestratorError.
ErrorText(label, e) == <<label, e.kind, e.msg>>

\* Error arm of step 2: fail_deployment(..).await?; return Err(e).
CloneErrArm(r, e, label, db_ok, emit_ok) ==
    LET r1 == fail_deployment(r, ErrorText(label, e), db_ok, emit_ok)
    IN  IF Returned(r1) THEN r1 ELSE Return(r1, e)

\* ErrArm in which a failed cleanup is returned in place of the step's error.
ErrArm_CleanupMasks(r, e, label, cleanup_ok, db_ok, emit_ok) ==
    LET r1 == cleanup_repository(r, cleanup_ok)
        r2 == fail_deployment(r1, ErrorText(label, e), db_ok, emit_ok)
    IN  IF Returned(r2) THEN r2
        ELSE IF cleanup_ok THEN Return(r2, e)
        ELSE Return(r2, PortError("cleanup_repository"))

\* ErrArm with the "return Err(e)" left out: the run stays at its step.
ErrArm_NoReturn(r, e, label, cleanup_ok, db_ok, emit_ok) ==
    LET r1 == cleanup_repository(r, cleanup_ok)
    IN  fail_deployment(r1, ErrorText(label, e), db_ok, emit_ok)

\* Error arm of steps 3-10: cleanup_repository(..).await;
\* fail_deployment(..).await?; return Err(e).
ErrArm(r, e, label, cleanup_ok, db_ok, emit_ok) ==
    LET r1 == cleanup_repository(r, cleanup_ok)
        r2 == fail_deployment(r1, ErrorText(label, e), db_ok, emit_ok)
    IN  IF Returned(r2) THEN r2 ELSE Return(r2, e)

(***************************************************************************)
(* The steps of run_deployment.  A step is the source between two         *)
(* suspension points on a port of a step; its parameters are the answers  *)
(* of the environment to the calls the step makes.                         *)
(***************************************************************************)
\* Step 1: initialize_deployment(..).await?; emit_progress(.., 10).await?
Step1_Initialize(r, proj, db_ok, emit_ok) ==
    LET d  == Deployment_new(proj.id, PlaceholderSha, None,
                             <<proj.name, "latest">>)
    IN  IF ~db_ok
        THEN Return(Log(r, DbWrite("create_deployment", FALSE, d)),
                    OrchestratorError("DatabaseError", "create failed"))
        ELSE LET r1 == Log([r EXCEPT !.deployment = d,
                                     !.deployments =
                                         create_deployment(@, d)],
                           DbWrite("create_deployment", TRUE, d))
                 r2 == emit_progress(r1, "Initializing deployment", 10,
                                     emit_ok)
             IN  IF Returned(r2) THEN r2 ELSE Goto(r2, "clone")

\* Step 2: clone_repository, then emit_progress(.., 20).await?
Step2_Clone(r, proj, port_ok, path, db_ok, emit_ok) ==
    LET r1 == Log(r, Call("clone_repository", port_ok, 0,
                          proj.repository_url))
    IN  IF ~port_ok
        THEN CloneErrArm(r1, PortError("clone_repository"),
                         "Git clone failed", db_ok, emit_ok)
        ELSE LET r2 == emit_progress([r1 EXCEPT !.repo_path = path],
                                     "Repository cloned", 20, emit_ok)
             IN  IF Returned(r2) THEN r2 ELSE Goto(r2, "detect")

\* Step 3: detect_framework, then emit_progress(.., 25).await?
Step3_Detect(r, port_ok, fw, cleanup_ok, db_ok, emit_ok) ==
    LET r1 == Log(r, Call("detect_framework", port_ok, 0, r.repo_path))
    IN  IF ~port_ok
        THEN ErrArm(r1, PortError("detect_framework"),
                    "Framework detection failed", cleanup_ok, db_ok, emit_ok)
        ELSE LET r2 == emit_progress([r1 EXCEPT !.framework = fw],
                                     "Framework detected", 25, emit_ok)
             IN  IF Returned(r2) THEN r2 ELSE Goto(r2, "commit")

\* Step 4: get_commit_info, copy sha and message into the deployment,
\* update_deployment(..).await?, emit_progress("Commit: sha[..8]", 30).await?
Step4_CommitInfo(r, port_ok, sha, cleanup_ok, db_ok, emit_ok) ==
    LET r1 == Log(r, Call("get_commit_info", port_ok, 0, r.repo_path))
    IN  IF ~port_ok
        THEN ErrArm(r1, PortError("get_commit_info"),
                    "Failed to get commit info", cleanup_ok, db_ok, emit_ok)
        ELSE LET r2 == [r1 EXCEPT !.sha = sha,
                                  !.deployment.commit_sha = sha,
                                  !.deployment.commit_message =
                                      Some(CommitMessage)]
                 r3 == update_deployment(r2, db_ok)
             IN  IF Returned(r3) THEN r3
                 ELSE IF ShaPrefixPanics(sha) THEN Panic(r3)
                 ELSE LET r4 == emit_progress(r3, "Commit", 30, emit_ok)
                      IN  IF Returned(r4) THEN r4 ELSE Goto(r4, "build")

\* Step 5: build the image tagged name:sha[..8] for project.framework,
\* then emit_progress(.., 50).await?
Step5_Build(r, proj, port_ok, cleanup_ok, db_ok, emit_ok) ==
    IF ShaPrefixPanics(r.sha) THEN Panic(r)
    ELSE
    LET image_tag == <<proj.name, ShaPrefix(r.sha)>>
    IN  IF to_str(r.repo_path) = None
        THEN ErrArm(r, OrchestratorError("AwsError", "Invalid path"),
                    "Docker build failed", cleanup_ok, db_ok, emit_ok)
        ELSE
        LET r1 == Log(r, Call("build_docker_image", port_ok, 0,
                              proj.framework))
        IN  IF ~port_ok
            THEN ErrArm(r1, PortError("build_docker_image"),
                        "Docker build failed", cleanup_ok, db_ok, emit_ok)
            ELSE LET r2 == emit_progress(r1, "Docker image built", 50,
                                         emit_ok)
                 IN  IF Returned(r2) THEN r2 ELSE Goto(r2, "login")

\* Step 6: docker_login_ecr, then emit_progress(.., 55).await?
Step6_Login(r, port_ok, cleanup_ok, db_ok, emit_ok) ==
    LET r1 == Log(r, Call("docker_login_ecr", port_ok, 0, ""))
    IN  IF ~port_ok
        THEN ErrArm(r1, PortError("docker_login_ecr"),
                    "ECR login failed", cleanup_ok, db_ok, emit_ok)
        ELSE LET r2 == emit_progress(r1, "Authenticated with ECR", 55,
                                     emit_ok)
             IN  IF Returned(r2) THEN r2 ELSE Goto(r2, "push")

\* Step 7: push to ecr_repository:sha[..8], then emit_progress(.., 70).await?
Step7_Push(r, proj, port_ok, cleanup_ok, db_ok, emit_ok) ==
    IF ShaPrefixPanics(r.sha) THEN Panic(r)
    ELSE
    LET r1 == Log(r, Call("push_docker_image", port_ok, 0,
                          proj.ecr_repository))
    IN  IF ~port_ok
        THEN ErrArm(r1, PortError("push_docker_image"),
                    "ECR push failed", cleanup_ok, db_ok, emit_ok)
        ELSE LET r2 == emit_progress(r1, "Image pushed to ECR", 70, emit_ok)
             IN  IF Returned(r2) THEN r2 ELSE Goto(r2, "register")

\* Step 8: register the task definition (container port from
\* project.framework), then emit_progress(.., 80).await?
Step8_Register(r, proj, port_ok, cleanup_ok, db_ok, emit_ok) ==
    LET port == get_framework_port(proj.framework)
        r1   == Log(r, Call("register_task_definition", port_ok, port,
                            proj.name))
    IN  IF ~port_ok
        THEN ErrArm(r1, PortError("register_task_definition"),
                    "Task registration failed", cleanup_ok, db_ok, emit_ok)
        ELSE LET r2 == emit_progress([r1 EXCEPT !.task_arn = TaskArn],
                                     "ECS task definition registered", 80,
                                     emit_ok)
             IN  IF Returned(r2) THEN r2 ELSE Goto(r2, "deploy")

\* Step 9: deploy_service with the registered definition, then
\* emit_progress(.., 90).await?
Step9_Deploy(r, proj, port_ok, cleanup_ok, db_ok, emit_ok) ==
    LET port == get_framework_port(proj.framework)
        r1   == Log(r, Call("deploy_service", port_ok, port, r.task_arn))
    IN  IF ~port_ok
        THEN ErrArm(r1, PortError("deploy_service"),
                    "ECS deployment failed", cleanup_ok, db_ok, emit_ok)
        ELSE LET r2 == emit_progress(r1, "Deployment initiated on ECS", 90,
                                     emit_ok)
             IN  IF Returned(r2) THEN r2 ELSE Goto(r2, "monitor")

\* 10 * running / max(desired, 1), cast to u8.
progress_ratio(health) ==
    AsU8(TruncDiv(10 * health.running_count, Max(health.desired_count, 1)))

\* "90 + ratio" is u8 arithmetic: past 255 it panics in a build with overflow
\* checks and wraps in a build without them.
progress_overflows(health) == 90 + progress_ratio(health) >= U8Modulus

poll_progress(health) == (90 + progress_ratio(health)) % U8Modulus

\* Step10_Poll whose budget test lets one more iteration through.
Step10_Poll_ExtraPoll(r, proj, checks, port_ok, health, cleanup_ok, db_ok, emit_ok) ==
    LET r0 == [r EXCEPT !.attempts = @ + 1]
    IN  IF r0.attempts > max_attempts + 1
        THEN ErrArm(r0, OrchestratorError("AwsError", TimeoutMessage),
                    "Service failed to become healthy",
                    cleanup_ok, db_ok, emit_ok)
        ELSE
        LET r1 == Log(r0, Call("get_service_health", port_ok, 0,
                               IF port_ok /\ health.is_healthy
                               THEN "healthy" ELSE "not healthy"))
        IN  IF ~port_ok
            THEN ErrArm(r1, PortError("get_service_health"),
                        "Service failed to become healthy",
                        cleanup_ok, db_ok, emit_ok)
            ELSE IF health.is_healthy THEN Goto(r1, "finish")
            ELSE IF progress_overflows(health) /\ checks THEN Panic(r1)
            ELSE emit_progress(r1, "Waiting for service to stabilize",
                               Min(poll_progress(health), 99), emit_ok)

\* Step10_Poll that reports the exhausted budget as the error of the
\* get_service_health call.
Step10_Poll_GenericTimeout(r, proj, checks, port_ok, health, cleanup_ok, db_ok, emit_ok) ==
    LET r0 == [r EXCEPT !.attempts = @ + 1]
    IN  IF r0.attempts > max_attempts
        THEN ErrArm(r0, PortError("get_service_health"),
                    "Service failed to become healthy",
                    cleanup_ok, db_ok, emit_ok)
        ELSE
        LET r1 == Log(r0, Call("get_service_health", port_ok, 0,
                               IF port_ok /\ health.is_healthy
                               THEN "healthy" ELSE "not healthy"))
        IN  IF ~port_ok
            THEN ErrArm(r1, PortError("get_service_health"),
                        "Service failed to become healthy",
                        cleanup_ok, db_ok, emit_ok)
            ELSE IF health.is_healthy THEN Goto(r1, "finish")
            ELSE IF progress_overflows(health) /\ checks THEN Panic(r1)
            ELSE emit_progress(r1, "Waiting for service to stabilize",
                               Min(poll_progress(health), 99), emit_ok)

\* One iteration of the loop of monitor_deployment, with the error arm of
\* step 10 in run_deployment.
Step10_Poll(r, proj, checks, port_ok, health, cleanup_ok, db_ok, emit_ok) ==
    LET r0 == [r EXCEPT !.attempts = @ + 1]
    IN  IF r0.attempts > max_attempts
        THEN ErrArm(r0, OrchestratorError("AwsError", TimeoutMessage),
                    "Service failed to become healthy",
                    cleanup_ok, db_ok, emit_ok)
        ELSE
        LET r1 == Log(r0, Call("get_service_health", port_ok, 0,
                               IF port_ok /\ health.is_healthy
                               THEN "healthy" ELSE "not healthy"))
        IN  IF ~port_ok
            THEN ErrArm(r1, PortError("get_service_health"),
                        "Service failed to become healthy",
                        cleanup_ok, db_ok, emit_ok)
            ELSE IF health.is_healthy THEN Goto(r1, "finish")
            ELSE IF progress_overflows(health) /\ checks THEN Panic(r1)
            ELSE emit_progress(r1, "Waiting for service to stabilize",
                               Min(poll_progress(health), 99), emit_ok)

\* Finish that stores Success without a completion timestamp.
Finish_NoTimestamp(r, cleanup_ok, db_ok, emit_ok) ==
    LET r1 == cleanup_repository(r, cleanup_ok)
        r2 == [r1 EXCEPT !.deployment.status = "Success"]
        r3 == update_deployment(r2, db_ok)
    IN  IF Returned(r3) THEN r3
        ELSE LET r4 == emit_progress(r3, "Deployment successful", 100,
                                     emit_ok)
             IN  IF Returned(r4) THEN r4
                 ELSE Return(r4, Ok(r4.deployment.id))

\* Finish that records a failed emission of the last event through
\* fail_deployment, after Success was stored.
Finish_FailsAfterSuccess(r, cleanup_ok, db_ok, emit_ok) ==
    LET r1 == cleanup_repository(r, cleanup_ok)
        r2 == [r1 EXCEPT !.deployment.status = "Success",
                         !.deployment.completed_at = Some(Now)]
        r3 == update_deployment(r2, db_ok)
    IN  IF Returned(r3) THEN r3
        ELSE IF emit_ok
             THEN Return(emit_progress(r3, "Deployment successful", 100,
                                       TRUE),
                         Ok(r3.deployment.id))
             ELSE LET r4 == fail_deployment(r3, <<"emit failed">>, TRUE,
                                            TRUE)
                  IN  Return(r4, OrchestratorError("EventError",
                                                   "emit failed"))

\* After step 10: cleanup, mark the deployment successful, emit 100.
Finish(r, cleanup_ok, db_ok, emit_ok) ==
    LET r1 == cleanup_repository(r, cleanup_ok)
        r2 == [r1 EXCEPT !.deployment.status = "Success",
                         !.deployment.completed_at = Some(Now)]
        r3 == update_deployment(r2, db_ok)
    IN  IF Returned(r3) THEN r3
        ELSE LET r4 == emit_progress(r3, "Deployment successful", 100,
                                     emit_ok)
             IN  IF Returned(r4) THEN r4
                 ELSE Return(r4, Ok(r4.deployment.id))

(***************************************************************************)
(* The compute backend as a source of health snapshots.                    *)
(***************************************************************************)
InitHealthSrc == [polls |-> 0, last |-> ServiceHealth(0, 1, 1)]

NextHealths ==
    IF health_src.polls < HealthSettle
    THEN Healths
    ELSE {h \in Healths : h = health_src.last \/ h.is_healthy}

Polled(h) == [polls |-> Min(health_src.polls + 1, HealthSettle), last |-> h]

(***************************************************************************)
(* Shadow configuration (shadow/config.rs).  failure_rate is a             *)
(* probability; it is kept in percent.                                     *)
(***************************************************************************)
FailureRates == {0, 50, 100}

\* Values of rng.gen::<f64>(), in percent.
Draws == {25, 75}

should_fail(cfg, draw) ==
    IF cfg.failure_rate <= 0 THEN FALSE
    ELSE IF cfg.failure_rate >= 100 THEN TRUE
    ELSE draw < cfg.failure_rate

(***************************************************************************)
(* Shadow state (shadow/state.rs): six maps behind one mutex.  Every      *)
(* method takes the lock, reads or writes one map and releases the lock.  *)
(***************************************************************************)
EmptyMap == << >>

Insert(map, k, v) ==
    [x \in (DOMAIN map) \cup {k} |-> IF x = k THEN v ELSE map[x]]

Get(map, k) == IF k \in DOMAIN map THEN Some(map[k]) ELSE None

ShadowState_new ==
    [ ecr_repositories |-> EmptyMap,
      docker_images    |-> EmptyMap,
      task_definitions |-> EmptyMap,
      services         |-> EmptyMap,
      cloned_repos     |-> EmptyMap,
      logs             |-> EmptyMap ]

\* format!("{}:{}", a, b) on strings, which are sequences of characters.
Key(a, b) == a \o <<":">> \o b

ServiceStatus(running, desired, pending) ==
    [ running_count |-> running,
      desired_count |-> desired,
      pending_count |-> pending ]

add_ecr_repository(sh, name, uri) ==
    [sh EXCEPT !.ecr_repositories = Insert(@, name, uri)]

get_ecr_repository(sh, name) == Get(sh.ecr_repositories, name)

add_docker_image(sh, tag) ==
    [sh EXCEPT !.docker_images = Insert(@, tag, TRUE)]

has_docker_image(sh, tag) ==
    IF tag \in DOMAIN sh.docker_images THEN sh.docker_images[tag] ELSE FALSE

add_task_definition(sh, family, arn) ==
    [sh EXCEPT !.task_definitions = Insert(@, family, arn)]

get_task_definition(sh, family) == Get(sh.task_definitions, family)

set_service_status(sh, cluster, service, status) ==
    [sh EXCEPT !.services = Insert(@, Key(cluster, service), status)]

get_service_status(sh, cluster, service) ==
    Get(sh.services, Key(cluster, service))

add_cloned_repo(sh, url, path) ==
    [sh EXCEPT !.cloned_repos = Insert(@, url, path)]

get_cloned_repo(sh, url) == Get(sh.cloned_repos, url)

add_log(sh, log_group, stream, message) ==
    LET key == Key(log_group, stream)
        old == IF key \in DOMAIN sh.logs THEN sh.logs[key] ELSE << >>
    IN  [sh EXCEPT !.logs = Insert(@, key, Append(old, message))]

\* logs.iter().rev().take(limit).rev(): the last "limit" lines, in order.
get_logs(sh, log_group, stream, limit) ==
    LET key == Key(log_group, stream)
    IN  IF key \in DOMAIN sh.logs
        THEN LET l == sh.logs[key]
                 n == Min(limit, Len(l))
             IN  SubSeq(l, Len(l) - n + 1, Len(l))
        ELSE << >>

\* reset that clears every map but the logs.
reset_KeepsLogs(sh) ==
    [ ecr_repositories |-> EmptyMap,
      docker_images    |-> EmptyMap,
      task_definitions |-> EmptyMap,
      services         |-> EmptyMap,
      cloned_repos     |-> EmptyMap,
      logs             |-> sh.logs ]

\* Each of the six maps is cleared under the one lock.
reset(sh) ==
    [ ecr_repositories |-> EmptyMap,
      docker_images    |-> EmptyMap,
      task_definitions |-> EmptyMap,
      services         |-> EmptyMap,
      cloned_repos     |-> EmptyMap,
      logs             |-> EmptyMap ]

(***************************************************************************)
(* The disk under the mock ports: a map from directory to the files in it. *)
(* A file's content is what the mock ports read from it: whether it is     *)
(* JSON, and the keys of its "dependencies" and "devDependencies".         *)
(***************************************************************************)
Remove(map, k) == [x \in (DOMAIN map) \ {k} |-> map[x]]

exists(files, path) == path \in DOMAIN files

file_exists(files, path, name) ==
    exists(files, path) /\ name \in DOMAIN files[path]

PackageJson(deps) == [valid |-> TRUE, deps |-> deps, dev_deps |-> {}]

Text == [valid |-> FALSE, deps |-> {}, dev_deps |-> {}]

\* The i-th filesystem operation of a call succeeds when the disk lets at
\* least i operations of the call through.
IoOk(io, i) == i <= io

create_dir_all(files, path) ==
    IF exists(files, path) THEN files ELSE Insert(files, path, EmptyMap)

write(files, path, name, content) ==
    [files EXCEPT ![path] = Insert(@, name, content)]

remove_dir_all(files, path) == Remove(files, path)

(***************************************************************************)
(* Mock source-control port (shadow/git_mock.rs).  An operation takes the  *)
(* configuration, the shadow state, the disk and the environment's         *)
(* answers, and gives its outcome with the state and the disk it leaves.   *)
(***************************************************************************)
MockResult(out, val, sh, files) ==
    [out |-> out, val |-> val, shadow |-> sh, fs |-> files]

Simulated(operation) == <<"Simulated failure", operation>>

\* e.to_string() of a std::io::Error.
IoError == <<"io error">>

check_failure(cfg, draw) == should_fail(cfg, draw)

\* str::contains on strings as sequences of characters.
Contains(s, sub) ==
    \E i \in 0..(Len(s) - Len(sub)) : SubSeq(s, i + 1, i + Len(sub)) = sub

\* char::to_lowercase on the letters that occur in the URLs of the model.
LowerChar(c) ==
    CASE c = "N" -> "n"
      [] c = "G" -> "g"
      [] c = "O" -> "o"
      [] c = "R" -> "r"
      [] OTHER -> c

to_lowercase(s) == [k \in 1..Len(s) |-> LowerChar(s[k])]

determine_framework_from_url(repo_url) ==
    LET url_lower == to_lowercase(repo_url)
    IN  CASE Contains(url_lower, <<"n","e","x","t">>) -> "NextJs"
          [] Contains(url_lower, <<"r","e","a","c","t">>) -> "React"
          [] Contains(url_lower, <<"v","u","e">>) -> "Vue"
          [] Contains(url_lower, <<"a","n","g","u","l","a","r">>) -> "Angular"
          [] \/ Contains(url_lower, <<"p","y","t","h","o","n">>)
             \/ Contains(url_lower, <<"f","l","a","s","k">>)
             \/ Contains(url_lower, <<"d","j","a","n","g","o">>) -> "Python"
          [] \/ Contains(url_lower, <<"n","o","d","e">>)
             \/ Contains(url_lower, <<"e","x","p","r","e","s","s">>) -> "Node"
          [] \/ Contains(url_lower, <<"g","o">>)
             \/ Contains(url_lower, <<"g","o","l","a","n","g">>) -> "Go"
          [] Contains(url_lower, <<"r","u","s","t">>) -> "Rust"
          [] OTHER -> "Node"

\* create_mock_project whose Vue manifest also names react.
MockFiles_VueWithReact(framework) ==
    CASE framework = "NextJs" ->
             << <<"package.json", PackageJson({"next", "react", "react-dom"})>> >>
      [] framework = "React" ->
             << <<"package.json",
                  PackageJson({"react", "react-dom", "react-scripts"})>> >>
      [] framework = "Vue" ->
             << <<"package.json", PackageJson({"vue", "react"})>> >>
      [] framework = "Angular" ->
             << <<"package.json",
                  PackageJson({"@angular/core", "@angular/common"})>> >>
      [] framework = "Node" ->
             << <<"package.json", PackageJson({"express"})>>,
                <<"index.js", Text>> >>
      [] framework = "Python" ->
             << <<"requirements.txt", Text>>, <<"main.py", Text>> >>
      [] framework = "Go" -> << <<"go.mod", Text>> >>
      [] framework = "Rust" -> << <<"Cargo.toml", Text>> >>
      [] OTHER -> << <<"README.md", Text>> >>

\* The files create_mock_project writes for a framework, in order.
MockFiles(framework) ==
    CASE framework = "NextJs" ->
             << <<"package.json", PackageJson({"next", "react", "react-dom"})>> >>
      [] framework = "React" ->
             << <<"package.json",
                  PackageJson({"react", "react-dom", "react-scripts"})>> >>
      [] framework = "Vue" -> << <<"package.json", PackageJson({"vue"})>> >>
      [] framework = "Angular" ->
             << <<"package.json",
                  PackageJson({"@angular/core", "@angular/common"})>> >>
      [] framework = "Node" ->
             << <<"package.json", PackageJson({"express"})>>,
                <<"index.js", Text>> >>
      [] framework = "Python" ->
             << <<"requirements.txt", Text>>, <<"main.py", Text>> >>
      [] framework = "Go" -> << <<"go.mod", Text>> >>
      [] framework = "Rust" -> << <<"Cargo.toml", Text>> >>
      [] OTHER -> << <<"README.md", Text>> >>

RECURSIVE WriteAll(_, _, _, _)
\* Writes the first n of the listed files into the directory.
WriteAll(files, path, list, n) ==
    IF n = 0 THEN files
    ELSE write(WriteAll(files, path, list, n - 1), path,
               list[n][1], list[n][2])

\* The directory exists when this is called; "io" write operations succeed.
create_mock_project(files, path, repo_url, io) ==
    LET framework == determine_framework_from_url(repo_url)
        list == MockFiles(framework)
        n == Min(io, Len(list))
    IN  [ ok |-> n = Len(list),
          framework |-> framework,
          fs |-> WriteAll(files, path, list, n) ]

\* DefaultHasher of the path written with "{:x}": up to 16 hexadecimal
\* digits, fewer when the leading digits of the hash are zero.
Hex16 == <<"9","e","3","7","7","9","b","9","7","f","4","a","7","c","1","5">>

Hex15 == <<"e","3","7","7","9","b","9","7","f","4","a","7","c","1","5">>

MockPath1 == "/tmp/deployotron_shadow/repo_1"

MockPath2 == "/tmp/deployotron_shadow/repo_2"

MockPaths == {MockPath1, MockPath2}

generate_commit_sha(repo_url) == IF repo_url = MockPath2 THEN Hex15 ELSE Hex16

ShaLen == 16

MockCommitMessage == "Mock commit: Initial implementation"

MockGit_clone_repository(cfg, sh, files, repo_url, branch, temp_dir, draw, io) ==
    IF check_failure(cfg, draw)
    THEN MockResult("Err", <<"CloneFailed", Simulated("clone_repository")>>,
                    sh, files)
    ELSE IF ~IoOk(io, 1)
    THEN MockResult("Err", <<"TempDirFailed", IoError>>, sh, files)
    ELSE LET made == create_dir_all(files, temp_dir)
             proj == create_mock_project(made, temp_dir, repo_url, io - 1)
         IN  IF ~proj.ok
             THEN MockResult("Err", <<"FileReadFailed", IoError>>, sh, proj.fs)
             ELSE MockResult("Ok", temp_dir,
                             add_cloned_repo(sh, repo_url, temp_dir), proj.fs)

\* detect_js_framework that looks for react before next.
detect_js_framework_ReactFirst(package_json) ==
    IF ~package_json.valid
    THEN [out |-> "Err", val |-> <<"FrameworkDetectionFailed", << >>>>]
    ELSE LET all_deps == package_json.deps \cup package_json.dev_deps
         IN  [ out |-> "Ok",
               val |-> CASE "react" \in all_deps -> "React"
                         [] "next" \in all_deps -> "NextJs"
                         [] "vue" \in all_deps -> "Vue"
                         [] "@angular/core" \in all_deps -> "Angular"
                         [] OTHER -> "Node" ]

detect_js_framework(package_json) ==
    IF ~package_json.valid
    THEN [out |-> "Err", val |-> <<"FrameworkDetectionFailed", << >>>>]
    ELSE LET all_deps == package_json.deps \cup package_json.dev_deps
         IN  [ out |-> "Ok",
               val |-> CASE "next" \in all_deps -> "NextJs"
                         [] "react" \in all_deps -> "React"
                         [] "vue" \in all_deps -> "Vue"
                         [] "@angular/core" \in all_deps -> "Angular"
                         [] OTHER -> "Node" ]

MockGit_detect_framework(cfg, sh, files, repo_path, draw) ==
    IF check_failure(cfg, draw)
    THEN MockResult("Err", <<"CloneFailed", Simulated("detect_framework")>>,
                    sh, files)
    ELSE IF file_exists(files, repo_path, "package.json")
    THEN LET js == detect_js_framework(files[repo_path]["package.json"])
         IN  MockResult(js.out, js.val, sh, files)
    ELSE IF \/ file_exists(files, repo_path, "requirements.txt")
            \/ file_exists(files, repo_path, "setup.py")
            \/ file_exists(files, repo_path, "pyproject.toml")
    THEN MockResult("Ok", "Python", sh, files)
    ELSE IF file_exists(files, repo_path, "Gemfile")
    THEN MockResult("Ok", "Ruby", sh, files)
    ELSE IF file_exists(files, repo_path, "go.mod")
    THEN MockResult("Ok", "Go", sh, files)
    ELSE IF file_exists(files, repo_path, "Cargo.toml")
    THEN MockResult("Ok", "Rust", sh, files)
    ELSE MockResult("Ok", "Other", sh, files)

\* sha[..16] panics on a string shorter than 16 bytes.
MockGit_get_commit_info(cfg, sh, files, repo_path, commit_sha, draw) ==
    IF check_failure(cfg, draw)
    THEN MockResult("Err", <<"CloneFailed", Simulated("get_commit_info")>>,
                    sh, files)
    ELSE LET sha == IF commit_sha # None THEN commit_sha[1]
                    ELSE generate_commit_sha(repo_path)
         IN  IF Len(sha) < ShaLen
             THEN MockResult("Panic", << >>, sh, files)
             ELSE MockResult("Ok",
                             [ sha |-> SubSeq(sha, 1, ShaLen),
                               message |-> MockCommitMessage ],
                             sh, files)

MockGit_get_latest_commit_sha(cfg, sh, files, repo_path, draw) ==
    IF check_failure(cfg, draw)
    THEN MockResult("Err",
                    <<"CloneFailed", Simulated("get_latest_commit_sha")>>,
                    sh, files)
    ELSE LET sha == generate_commit_sha(repo_path)
         IN  IF Len(sha) < ShaLen
             THEN MockResult("Panic", << >>, sh, files)
             ELSE MockResult("Ok", SubSeq(sha, 1, ShaLen), sh, files)

\* cleanup_repository without the exists() test: remove_dir_all of a
\* missing directory is an error.
MockGit_cleanup_repository_NoExistsTest(cfg, sh, files, repo_path, io) ==
    IF exists(files, repo_path) /\ IoOk(io, 1)
    THEN MockResult("Ok", << >>, sh, remove_dir_all(files, repo_path))
    ELSE MockResult("Err", <<"FileReadFailed", IoError>>, sh, files)

\* No failure check: the directory is removed when it is there.
MockGit_cleanup_repository(cfg, sh, files, repo_path, io) ==
    IF exists(files, repo_path)
    THEN IF IoOk(io, 1)
         THEN MockResult("Ok", << >>, sh, remove_dir_all(files, repo_path))
         ELSE MockResult("Err", <<"FileReadFailed", IoError>>, sh, files)
    ELSE MockResult("Ok", << >>, sh, files)

(***************************************************************************)
(* Mock compute port (shadow/aws_mock.rs).                                 *)
(***************************************************************************)
Region == "us-east-1"

\* format!("123456789012.dkr.ecr.{}.amazonaws.com/{}", region, name)
EcrUri(region, repository_name) ==
    <<"123456789012.dkr.ecr", region, "amazonaws.com", repository_name>>

\* format!("arn:aws:ecs:{}:123456789012:task-definition/{}:1", region, family)
TaskDefinitionArn(region, task_family) ==
    <<"arn:aws:ecs", region, "123456789012", "task-definition",
      task_family, "1">>

EcsDeploymentConfig(cluster, service, family, desired) ==
    [ cluster_name  |-> cluster,
      service_name  |-> service,
      task_family   |-> family,
      desired_count |-> desired ]

\* ensure_ecr_repository without the lookup: every call stores a URI of
\* its own.
MockAws_ensure_ecr_repository_NoLookup(cfg, sh, files, repository_name, draw) ==
    IF check_failure(cfg, draw)
    THEN MockResult("Err",
                    <<"EcsOperationFailed", Simulated("ensure_ecr_repository")>>,
                    sh, files)
    ELSE LET found == get_ecr_repository(sh, repository_name)
             uri == IF found # None THEN Append(found[1], "again")
                    ELSE EcrUri(Region, repository_name)
         IN  MockResult("Ok", uri,
                        add_ecr_repository(sh, repository_name, uri), files)

MockAws_ensure_ecr_repository(cfg, sh, files, repository_name, draw) ==
    IF check_failure(cfg, draw)
    THEN MockResult("Err",
                    <<"EcsOperationFailed", Simulated("ensure_ecr_repository")>>,
                    sh, files)
    ELSE LET found == get_ecr_repository(sh, repository_name)
         IN  IF found # None
             THEN MockResult("Ok", found[1], sh, files)
             ELSE LET uri == EcrUri(Region, repository_name)
                  IN  MockResult("Ok", uri,
                                 add_ecr_repository(sh, repository_name, uri),
                                 files)

MockAws_docker_login_ecr(cfg, sh, files, draw) ==
    IF check_failure(cfg, draw)
    THEN MockResult("Err",
                    <<"EcsOperationFailed", Simulated("docker_login_ecr")>>,
                    sh, files)
    ELSE MockResult("Ok", << >>, sh, files)

\* std::fs::write of the Dockerfile fails when the directory is missing or
\* the disk refuses the write.
generate_mock_dockerfile(files, source_dir, framework, io) ==
    IF exists(files, source_dir) /\ IoOk(io, 1)
    THEN [ok |-> TRUE, fs |-> write(files, source_dir, "Dockerfile", Text)]
    ELSE [ok |-> FALSE, fs |-> files]

MockAws_build_docker_image(cfg, sh, files, source_dir, image_tag, framework, draw, io) ==
    IF check_failure(cfg, draw)
    THEN MockResult("Err",
                    <<"EcsOperationFailed", Simulated("build_docker_image")>>,
                    sh, files)
    ELSE LET gen == IF file_exists(files, source_dir, "Dockerfile")
                    THEN [ok |-> TRUE, fs |-> files]
                    ELSE generate_mock_dockerfile(files, source_dir,
                                                  framework, io)
         IN  IF ~gen.ok
             THEN MockResult("Err", <<"DockerOperationFailed", IoError>>,
                             sh, files)
             ELSE MockResult("Ok", << >>, add_docker_image(sh, image_tag),
                             gen.fs)

MockAws_push_docker_image(cfg, sh, files, local_tag, ecr_uri, draw) ==
    IF check_failure(cfg, draw)
    THEN MockResult("Err",
                    <<"EcsOperationFailed", Simulated("push_docker_image")>>,
                    sh, files)
    ELSE IF ~has_docker_image(sh, local_tag)
    THEN MockResult("Err", <<"DockerOperationFailed", <<"Image not found">>>>,
                    sh, files)
    ELSE MockResult("Ok", << >>, add_docker_image(sh, ecr_uri), files)

MockAws_register_task_definition(cfg, sh, files, ecs, draw) ==
    IF check_failure(cfg, draw)
    THEN MockResult("Err",
                    <<"EcsOperationFailed",
                      Simulated("register_task_definition")>>,
                    sh, files)
    ELSE LET task_arn == TaskDefinitionArn(Region, ecs.task_family)
         IN  MockResult("Ok", task_arn,
                        add_task_definition(sh, ecs.task_family, task_arn),
                        files)

\* deploy_service that stores the initial status before the failure check.
MockAws_deploy_service_StoresFirst(cfg, sh, files, ecs, task_definition_arn, draw) ==
    LET stored == set_service_status(sh, ecs.cluster_name, ecs.service_name,
                      ServiceStatus(0, ecs.desired_count, ecs.desired_count))
    IN  IF check_failure(cfg, draw)
        THEN MockResult("Err",
                        <<"EcsOperationFailed", Simulated("deploy_service")>>,
                        stored, files)
        ELSE MockResult("Ok", << >>, stored, files)

MockAws_deploy_service(cfg, sh, files, ecs, task_definition_arn, draw) ==
    IF check_failure(cfg, draw)
    THEN MockResult("Err",
                    <<"EcsOperationFailed", Simulated("deploy_service")>>,
                    sh, files)
    ELSE MockResult("Ok", << >>,
                    set_service_status(sh, ecs.cluster_name, ecs.service_name,
                        ServiceStatus(0, ecs.desired_count, ecs.desired_count)),
                    files)

\* A poll that starts a task and leaves it counted as pending.
AdvanceStatus_KeepsPending(status) ==
    IF status.pending_count > 0 /\ status.running_count < status.desired_count
    THEN ServiceStatus(status.running_count + 1, status.desired_count,
                       status.pending_count)
    ELSE status

\* The status that a poll leaves and reports: one pending task starts.
AdvanceStatus(status) ==
    IF status.pending_count > 0 /\ status.running_count < status.desired_count
    THEN ServiceStatus(status.running_count + 1, status.desired_count,
                       status.pending_count - 1)
    ELSE status

\* get_service_health that advances the stored status and reports the
\* status it found.
MockAws_get_service_health_ReportsOld(cfg, sh, files, cluster_name, service_name, draw) ==
    IF check_failure(cfg, draw)
    THEN MockResult("Err",
                    <<"EcsOperationFailed", Simulated("get_service_health")>>,
                    sh, files)
    ELSE LET found == get_service_status(sh, cluster_name, service_name)
             status == IF found # None THEN found[1]
                       ELSE ServiceStatus(0, 1, 1)
             new_status == AdvanceStatus(status)
         IN  MockResult("Ok",
                        ServiceHealth(status.running_count,
                                      status.desired_count,
                                      status.pending_count),
                        IF new_status # status
                        THEN set_service_status(sh, cluster_name,
                                                service_name, new_status)
                        ELSE sh,
                        files)

MockAws_get_service_health(cfg, sh, files, cluster_name, service_name, draw) ==
    IF check_failure(cfg, draw)
    THEN MockResult("Err",
                    <<"EcsOperationFailed", Simulated("get_service_health")>>,
                    sh, files)
    ELSE LET found == get_service_status(sh, cluster_name, service_name)
             status == IF found # None THEN found[1]
                       ELSE ServiceStatus(0, 1, 1)
             new_status == AdvanceStatus(status)
         IN  MockResult("Ok",
                        ServiceHealth(new_status.running_count,
                                      new_status.desired_count,
                                      new_status.pending_count),
                        IF new_status # status
                        THEN set_service_status(sh, cluster_name,
                                                service_name, new_status)
                        ELSE sh,
                        files)

MockLogs == <<"Container started", "Application initializing...",
              "Server listening on port 3000">>

\* "limit as usize" turns a negative i32 into a number larger than any log.
UsizeOfNegative == 1000000

AsUsize(limit) == IF limit < 0 THEN UsizeOfNegative ELSE limit

RECURSIVE AddLogs(_, _, _, _, _)
AddLogs(sh, log_group, log_stream, lines, n) ==
    IF n = 0 THEN sh
    ELSE add_log(AddLogs(sh, log_group, log_stream, lines, n - 1),
                 log_group, log_stream, lines[n])

MockAws_fetch_logs(cfg, sh, files, log_group, log_stream, limit, draw) ==
    IF check_failure(cfg, draw)
    THEN MockResult("Err",
                    <<"EcsOperationFailed", Simulated("fetch_logs")>>,
                    sh, files)
    ELSE LET logs == get_logs(sh, log_group, log_stream, AsUsize(limit))
         IN  IF logs = << >>
             THEN MockResult("Ok", MockLogs,
                             AddLogs(sh, log_group, log_stream, MockLogs,
                                     Len(MockLogs)),
                             files)
             ELSE MockResult("Ok", logs, sh, files)

(***************************************************************************)
(* Tasks that share one ShadowState.  Each holds a MockAwsService of its   *)
(* own (aws_mock.rs:27-34), and a call of its service is a sequence of     *)
(* ShadowState accessor calls, each of which locks the mutex, acts and     *)
(* unlocks (state.rs:55-107); between two of them another task may run.    *)
(***************************************************************************)
Tasks == 1..MaxTasks

\* A task between calls.
Idle(region) ==
    [ pc |-> "idle", region |-> region, args |-> << >>, local |-> << >>,
      code |-> << >>, held |-> {} ]

NoTasks == [t \in Tasks |-> Idle(Region)]

(***************************************************************************)
(* Specification.                                                          *)
(***************************************************************************)
Project(framework) ==
    [ id             |-> "proj-1",
      name           |-> "app",
      repository_url |-> <<"a", "p", "p">>,
      branch         |-> "main",
      framework      |-> framework,
      aws_cluster    |-> <<"p", "r", "o", "d">>,
      aws_service    |-> <<"w", "e", "b">>,
      ecr_repository |-> "registry/app" ]

Init ==
    /\ project \in {Project(f) : f \in Frameworks}
    /\ debug_build \in BOOLEAN
    /\ health_src = InitHealthSrc
    /\ run = InitRun
    /\ twin = InitRun
    /\ config = [failure_rate |-> 0]
    /\ shadow = ShadowState_new
    /\ fs = EmptyMap
    /\ trace = << >>
    /\ tasks = NoTasks

ShadowWorld == <<config, shadow, fs, trace>>

Env == <<tasks, project, debug_build, health_src, config, shadow, fs, trace>>

\* The twin takes the same step while it is at the same position.
Twin(next) == twin' = IF twin.pc = run.pc THEN next ELSE twin

Initialize ==
    /\ run.pc = "initialize"
    /\ \E db_ok, emit_ok \in BOOLEAN :
         /\ run' = Step1_Initialize(run, project, db_ok, emit_ok)
         /\ Twin(Step1_Initialize(twin, project, db_ok, emit_ok))
    /\ UNCHANGED Env

CloneRepository ==
    /\ run.pc = "clone"
    /\ \E port_ok, db_ok, emit_ok \in BOOLEAN, path \in Paths :
         /\ run' = Step2_Clone(run, project, port_ok, path, db_ok, emit_ok)
         /\ Twin(Step2_Clone(twin, project, port_ok, path, db_ok, emit_ok))
    /\ UNCHANGED Env

DetectFramework ==
    /\ run.pc = "detect"
    /\ \E port_ok, db_ok, emit_ok, c1, c2 \in BOOLEAN, fw \in Frameworks :
         /\ run' = Step3_Detect(run, port_ok, fw, c1, db_ok, emit_ok)
         /\ Twin(Step3_Detect(twin, port_ok, fw, c2, db_ok, emit_ok))
    /\ UNCHANGED Env

GetCommitInfo ==
    /\ run.pc = "commit"
    /\ \E port_ok, db_ok, emit_ok, c1, c2 \in BOOLEAN, sha \in Shas :
         /\ run' = Step4_CommitInfo(run, port_ok, sha, c1, db_ok, emit_ok)
         /\ Twin(Step4_CommitInfo(twin, port_ok, sha, c2, db_ok, emit_ok))
    /\ UNCHANGED Env

BuildDockerImage ==
    /\ run.pc = "build"
    /\ \E port_ok, db_ok, emit_ok, c1, c2 \in BOOLEAN :
         /\ run' = Step5_Build(run, project, port_ok, c1, db_ok, emit_ok)
         /\ Twin(Step5_Build(twin, project, port_ok, c2, db_ok, emit_ok))
    /\ UNCHANGED Env

LoginToEcr ==
    /\ run.pc = "login"
    /\ \E port_ok, db_ok, emit_ok, c1, c2 \in BOOLEAN :
         /\ run' = Step6_Login(run, port_ok, c1, db_ok, emit_ok)
         /\ Twin(Step6_Login(twin, port_ok, c2, db_ok, emit_ok))
    /\ UNCHANGED Env

PushToEcr ==
    /\ run.pc = "push"
    /\ \E port_ok, db_ok, emit_ok, c1, c2 \in BOOLEAN :
         /\ run' = Step7_Push(run, project, port_ok, c1, db_ok, emit_ok)
         /\ Twin(Step7_Push(twin, project, port_ok, c2, db_ok, emit_ok))
    /\ UNCHANGED Env

RegisterTaskDefinition ==
    /\ run.pc = "register"
    /\ \E port_ok, db_ok, emit_ok, c1, c2 \in BOOLEAN :
         /\ run' = Step8_Register(run, project, port_ok, c1, db_ok, emit_ok)
         /\ Twin(Step8_Register(twin, project, port_ok, c2, db_ok, emit_ok))
    /\ UNCHANGED Env

DeployToEcs ==
    /\ run.pc = "deploy"
    /\ \E port_ok, db_ok, emit_ok, c1, c2 \in BOOLEAN :
         /\ run' = Step9_Deploy(run, project, port_ok, c1, db_ok, emit_ok)
         /\ Twin(Step9_Deploy(twin, project, port_ok, c2, db_ok, emit_ok))
    /\ UNCHANGED Env

\* An iteration that is past the attempt budget makes no port call.
MonitorTimeout ==
    /\ run.pc = "monitor"
    /\ run.attempts >= max_attempts
    /\ \E db_ok, emit_ok, c1, c2 \in BOOLEAN :
         /\ run' = Step10_Poll(run, project, debug_build, TRUE,
                               health_src.last, c1, db_ok, emit_ok)
         /\ Twin(Step10_Poll(twin, project, debug_build, TRUE,
                             health_src.last, c2, db_ok, emit_ok))
    /\ UNCHANGED Env

MonitorPoll ==
    /\ run.pc = "monitor"
    /\ run.attempts < max_attempts
    /\ \E port_ok, db_ok, emit_ok, c1, c2 \in BOOLEAN, h \in NextHealths :
         /\ run' = Step10_Poll(run, project, debug_build, port_ok, h,
                               c1, db_ok, emit_ok)
         /\ Twin(Step10_Poll(twin, project, debug_build, port_ok, h,
                             c2, db_ok, emit_ok))
         /\ health_src' = IF port_ok THEN Polled(h) ELSE health_src
    /\ UNCHANGED <<tasks, project, debug_build>>
    /\ UNCHANGED ShadowWorld

MarkSuccessful ==
    /\ run.pc = "finish"
    /\ \E db_ok, emit_ok, c1, c2 \in BOOLEAN :
         /\ run' = Finish(run, c1, db_ok, emit_ok)
         /\ Twin(Finish(twin, c2, db_ok, emit_ok))
    /\ UNCHANGED Env

Next ==
    \/ Initialize
    \/ CloneRepository
    \/ DetectFramework
    \/ GetCommitInfo
    \/ BuildDockerImage
    \/ LoginToEcr
    \/ PushToEcr
    \/ RegisterTaskDefinition
    \/ DeployToEcs
    \/ MonitorPoll
    \/ MonitorTimeout
    \/ MarkSuccessful

Spec == Init /\ [][Next]_vars

(***************************************************************************)
(* Callers of the mock ports: a sequence of calls, one at a time, on mock *)
(* services that share one ShadowState.  Every call is recorded in the    *)
(* trace with the state it found and the state it left.                   *)
(***************************************************************************)
RepoUrls == { <<"a","p","p">>, <<"n","e","x","t">> }

Branch == "main"

RepositoryNames == {"app", "api"}

ImageTags == { <<"app", "latest">> }

ClusterProd == <<"p", "r", "o", "d">>

ServiceWeb == <<"w", "e", "b">>

ClusterDev == <<"d", "e", "v">>

ServiceApi == <<"a", "p", "i">>

MockServices == { <<ClusterProd, ServiceWeb>>, <<ClusterDev, ServiceApi>> }

TaskFamily == "app-task"

\* desired_count is an i32: a caller may pass a negative one.
DesiredCounts == (-1)..MaxDesired

LogGroup == <<"e", "c", "s">>

LogStream == <<"a", "p", "p">>

LogLimits == {-1, 0, 2}

SuppliedShas == {None, Some(<<"a","1","b","2","c","3","d">>)}

\* Filesystem operations a clone performs: one mkdir and up to two writes.
CloneIoOps == 3

\* The temporary directory outlives the process: a checkout of an earlier
\* session can still be on disk when the mock services are constructed.
LeftOverCheckout ==
    create_mock_project(create_dir_all(EmptyMap, MockPath1), MockPath1,
                        <<"a","p","p">>, 2).fs

InitMock ==
    /\ project = Project("NextJs")
    /\ debug_build = FALSE
    /\ health_src = InitHealthSrc
    /\ run = InitRun
    /\ twin = InitRun
    /\ config \in [failure_rate : FailureRates]
    /\ shadow = ShadowState_new
    /\ fs \in {EmptyMap, LeftOverCheckout}
    /\ trace = << >>
    /\ tasks = NoTasks

MockCallWithin(budget, op, args, res) ==
    /\ Len(trace) < budget
    /\ trace' = Append(trace,
                       [ op     |-> op,
                         args   |-> args,
                         rate   |-> config.failure_rate,
                         out    |-> res.out,
                         val    |-> res.val,
                         before |-> shadow,
                         after  |-> res.shadow,
                         fs_before |-> fs,
                         fs_after  |-> res.fs ])
    /\ shadow' = res.shadow
    /\ fs' = res.fs
    /\ UNCHANGED <<tasks, project, debug_build, health_src, run, twin, config>>

MockCall(op, args, res) == MockCallWithin(MaxCalls, op, args, res)

CallCloneRepository ==
    \E repo_url \in RepoUrls, temp_dir \in MockPaths, draw \in Draws,
       io \in 0..CloneIoOps :
        /\ ~exists(fs, temp_dir)
        /\ MockCall("clone_repository", <<repo_url>>,
                    MockGit_clone_repository(config, shadow, fs, repo_url,
                                             Branch, temp_dir, draw, io))

CallDetectFramework ==
    \E repo_path \in MockPaths, draw \in Draws :
        MockCall("detect_framework", <<repo_path>>,
                 MockGit_detect_framework(config, shadow, fs, repo_path, draw))

CallGetCommitInfo ==
    \E repo_path \in MockPaths, commit_sha \in SuppliedShas, draw \in Draws :
        MockCall("get_commit_info", <<repo_path, commit_sha>>,
                 MockGit_get_commit_info(config, shadow, fs, repo_path,
                                         commit_sha, draw))

CallGetLatestCommitSha ==
    \E repo_path \in MockPaths, draw \in Draws :
        MockCall("get_latest_commit_sha", <<repo_path>>,
                 MockGit_get_latest_commit_sha(config, shadow, fs, repo_path,
                                               draw))

CallCleanupRepository ==
    \E repo_path \in MockPaths, io \in 0..1 :
        MockCall("cleanup_repository", <<repo_path>>,
                 MockGit_cleanup_repository(config, shadow, fs, repo_path, io))

CallEnsureEcrRepository ==
    \E name \in RepositoryNames, draw \in Draws :
        MockCall("ensure_ecr_repository", <<name>>,
                 MockAws_ensure_ecr_repository(config, shadow, fs, name, draw))

CallDockerLoginEcr ==
    \E draw \in Draws :
        MockCall("docker_login_ecr", << >>,
                 MockAws_docker_login_ecr(config, shadow, fs, draw))

CallBuildDockerImage ==
    \E source_dir \in MockPaths, tag \in ImageTags, draw \in Draws,
       io \in 0..1 :
        MockCall("build_docker_image", <<source_dir, tag>>,
                 MockAws_build_docker_image(config, shadow, fs, source_dir,
                                            tag, "Node", draw, io))

CallPushDockerImage ==
    \E tag \in ImageTags, name \in RepositoryNames, draw \in Draws :
        MockCall("push_docker_image", <<tag, name>>,
                 MockAws_push_docker_image(config, shadow, fs, tag,
                                           EcrUri(Region, name), draw))

CallRegisterTaskDefinition ==
    \E draw \in Draws :
        MockCall("register_task_definition", <<TaskFamily>>,
                 MockAws_register_task_definition(config, shadow, fs,
                     EcsDeploymentConfig(ClusterProd, ServiceWeb,
                                         TaskFamily, 1),
                     draw))

DeployService(budget) ==
    \E s \in MockServices, n \in DesiredCounts, draw \in Draws :
        MockCallWithin(budget, "deploy_service", <<s[1], s[2], n>>,
                 MockAws_deploy_service(config, shadow, fs,
                     EcsDeploymentConfig(s[1], s[2], TaskFamily, n),
                     TaskDefinitionArn(Region, TaskFamily), draw))

GetServiceHealth(budget) ==
    \E s \in MockServices, draw \in Draws :
        MockCallWithin(budget, "get_service_health", <<s[1], s[2]>>,
                 MockAws_get_service_health(config, shadow, fs, s[1], s[2],
                                            draw))

CallDeployService == DeployService(MaxCalls)

CallGetServiceHealth == GetServiceHealth(MaxCalls)

CallFetchLogs ==
    \E limit \in LogLimits, draw \in Draws :
        MockCall("fetch_logs", <<limit>>,
                 MockAws_fetch_logs(config, shadow, fs, LogGroup, LogStream,
                                    limit, draw))

\* ShadowState::reset, called by the owner of the shared state.
CallReset ==
    MockCall("reset", << >>, MockResult("Ok", << >>, reset(shadow), fs))

NextMock ==
    \/ CallCloneRepository
    \/ CallDetectFramework
    \/ CallGetCommitInfo
    \/ CallGetLatestCommitSha
    \/ CallCleanupRepository
    \/ CallEnsureEcrRepository
    \/ CallDockerLoginEcr
    \/ CallBuildDockerImage
    \/ CallPushDockerImage
    \/ CallRegisterTaskDefinition
    \/ CallDeployService
    \/ CallGetServiceHealth
    \/ CallFetchLogs

SpecMock == InitMock /\ [][NextMock]_vars

\* The mock ports with a test harness that may reset the ShadowState
\* between two calls.
NextReset ==
    \/ CallReset
    \/ NextMock

SpecReset == InitMock /\ [][NextReset]_vars

(***************************************************************************)
(* A caller that deploys services and polls their health at failure rate  *)
(* 0, as the progression tests of the mock do, for as many calls as the    *)
(* largest desired count needs.                                            *)
(***************************************************************************)
PollCalls == MaxDesired + 2

InitHealth ==
    /\ project = Project("NextJs")
    /\ debug_build = FALSE
    /\ health_src = InitHealthSrc
    /\ run = InitRun
    /\ twin = InitRun
    /\ config = [failure_rate |-> 0]
    /\ shadow = ShadowState_new
    /\ fs = EmptyMap
    /\ trace = << >>
    /\ tasks = NoTasks

PollDeployService == DeployService(PollCalls)

PollGetServiceHealth == GetServiceHealth(PollCalls)

NextHealth ==
    \/ PollDeployService
    \/ PollGetServiceHealth

SpecHealth == InitHealth /\ [][NextHealth]_vars

(***************************************************************************)
(* run_deployment driven against the mock ports, with a record store and  *)
(* an event sink that work.  Each step asks the mock port, and the mock    *)
(* cleanup when the step cleans up, and hands their answers to the step.   *)
(***************************************************************************)
ShadowProject(framework, repo_url) ==
    [Project(framework) EXCEPT !.repository_url = repo_url]

InitShadow ==
    /\ project \in {ShadowProject(f, u) : f \in Frameworks, u \in RepoUrls}
    /\ debug_build \in BOOLEAN
    /\ health_src = InitHealthSrc
    /\ run = InitRun
    /\ twin = InitRun
    /\ config \in [failure_rate : FailureRates]
    /\ shadow = ShadowState_new
    /\ fs \in {EmptyMap, LeftOverCheckout}
    /\ trace = << >>
    /\ tasks = NoTasks

TraceEntry(op, args, res, sh, files) ==
    [ op     |-> op,
      args   |-> args,
      rate   |-> config.failure_rate,
      out    |-> res.out,
      val    |-> res.val,
      before |-> sh,
      after  |-> res.shadow,
      fs_before |-> files,
      fs_after  |-> res.fs ]

\* The step called cleanup_repository.
Cleaned(r, next) ==
    \E i \in (Len(r.log) + 1)..Len(next.log) :
        next.log[i].kind = "call" /\ next.log[i].op = "cleanup_repository"

\* The cleanup the step makes after the port answered with res.
CleanupAfter(res, io) ==
    MockGit_cleanup_repository(config, res.shadow, res.fs, run.repo_path, io)

\* A port call that panics unwinds run_deployment at the call.
ShadowStep(op, args, res, clean, next) ==
    LET aborted == res.out = "Panic"
        cleaned == ~aborted /\ Cleaned(run, next)
    IN  /\ run' = IF aborted THEN Panic(Log(run, Call(op, FALSE, 0, "")))
                  ELSE next
        /\ shadow' = res.shadow
        /\ fs' = IF cleaned THEN clean.fs ELSE res.fs
        /\ trace' = IF cleaned
                    THEN trace \o << TraceEntry(op, args, res, shadow, fs),
                                     TraceEntry("cleanup_repository",
                                                <<run.repo_path>>, clean,
                                                res.shadow, res.fs) >>
                    ELSE Append(trace, TraceEntry(op, args, res, shadow, fs))
        /\ UNCHANGED <<tasks, project, debug_build, health_src, config, twin>>

ShadowInitialize ==
    /\ run.pc = "initialize"
    /\ run' = Step1_Initialize(run, project, TRUE, TRUE)
    /\ UNCHANGED <<tasks, project, debug_build, health_src, twin>>
    /\ UNCHANGED ShadowWorld

ShadowClone ==
    /\ run.pc = "clone"
    /\ \E temp_dir \in MockPaths, draw \in Draws, io \in 0..CloneIoOps :
         /\ ~exists(fs, temp_dir)
         /\ LET res == MockGit_clone_repository(config, shadow, fs,
                           project.repository_url, project.branch,
                           temp_dir, draw, io)
            IN  ShadowStep("clone_repository", <<project.repository_url>>,
                           res, res,
                           Step2_Clone(run, project, res.out = "Ok",
                                       temp_dir, TRUE, TRUE))

ShadowDetect ==
    /\ run.pc = "detect"
    /\ \E draw \in Draws, io \in 0..1 :
         LET res == MockGit_detect_framework(config, shadow, fs,
                                             run.repo_path, draw)
             clean == CleanupAfter(res, io)
         IN  ShadowStep("detect_framework", <<run.repo_path>>, res, clean,
                        Step3_Detect(run, res.out = "Ok",
                                     IF res.out = "Ok" THEN res.val ELSE "",
                                     clean.out = "Ok", TRUE, TRUE))

ShadowCommitInfo ==
    /\ run.pc = "commit"
    /\ \E draw \in Draws, io \in 0..1 :
         LET res == MockGit_get_commit_info(config, shadow, fs,
                                            run.repo_path, None, draw)
             clean == CleanupAfter(res, io)
         IN  ShadowStep("get_commit_info", <<run.repo_path, None>>, res,
                        clean,
                        Step4_CommitInfo(run, res.out = "Ok",
                                         IF res.out = "Ok" THEN res.val.sha
                                         ELSE << >>,
                                         clean.out = "Ok", TRUE, TRUE))

ShadowBuild ==
    /\ run.pc = "build"
    /\ ~ShaPrefixPanics(run.sha)
    /\ to_str(run.repo_path) # None
    /\ \E draw \in Draws, io \in 0..1, io2 \in 0..1 :
         LET image_tag == <<project.name, ShaPrefix(run.sha)>>
             res == MockAws_build_docker_image(config, shadow, fs,
                        to_str(run.repo_path)[1], image_tag,
                        project.framework, draw, io)
             clean == CleanupAfter(res, io2)
         IN  ShadowStep("build_docker_image", <<run.repo_path, image_tag>>,
                        res, clean,
                        Step5_Build(run, project, res.out = "Ok",
                                    clean.out = "Ok", TRUE, TRUE))

ShadowLogin ==
    /\ run.pc = "login"
    /\ \E draw \in Draws, io \in 0..1 :
         LET res == MockAws_docker_login_ecr(config, shadow, fs, draw)
             clean == CleanupAfter(res, io)
         IN  ShadowStep("docker_login_ecr", << >>, res, clean,
                        Step6_Login(run, res.out = "Ok", clean.out = "Ok",
                                    TRUE, TRUE))

ShadowPush ==
    /\ run.pc = "push"
    /\ ~ShaPrefixPanics(run.sha)
    /\ \E draw \in Draws, io \in 0..1 :
         LET image_tag == <<project.name, ShaPrefix(run.sha)>>
             ecr_image_uri == <<project.ecr_repository, ShaPrefix(run.sha)>>
             res == MockAws_push_docker_image(config, shadow, fs, image_tag,
                                              ecr_image_uri, draw)
             clean == CleanupAfter(res, io)
         IN  ShadowStep("push_docker_image", <<image_tag, ecr_image_uri>>,
                        res, clean,
                        Step7_Push(run, project, res.out = "Ok",
                                   clean.out = "Ok", TRUE, TRUE))

\* The EcsDeploymentConfig that steps 8 and 9 build from the project.
ProjectEcsConfig(proj) ==
    EcsDeploymentConfig(proj.aws_cluster, proj.aws_service,
                        <<proj.name, "task">>, 1)

ShadowRegister ==
    /\ run.pc = "register"
    /\ \E draw \in Draws, io \in 0..1 :
         LET res == MockAws_register_task_definition(config, shadow, fs,
                        ProjectEcsConfig(project), draw)
             clean == CleanupAfter(res, io)
         IN  ShadowStep("register_task_definition",
                        <<ProjectEcsConfig(project).task_family>>, res, clean,
                        Step8_Register(run, project, res.out = "Ok",
                                       clean.out = "Ok", TRUE, TRUE))

ShadowDeploy ==
    /\ run.pc = "deploy"
    /\ \E draw \in Draws, io \in 0..1 :
         LET ecs == ProjectEcsConfig(project)
             res == MockAws_deploy_service(config, shadow, fs, ecs,
                                           run.task_arn, draw)
             clean == CleanupAfter(res, io)
         IN  ShadowStep("deploy_service",
                        <<ecs.cluster_name, ecs.service_name,
                          ecs.desired_count>>,
                        res, clean,
                        Step9_Deploy(run, project, res.out = "Ok",
                                     clean.out = "Ok", TRUE, TRUE))

ShadowMonitor ==
    /\ run.pc = "monitor"
    /\ run.attempts < max_attempts
    /\ \E draw \in Draws, io \in 0..1 :
         LET res == MockAws_get_service_health(config, shadow, fs,
                        project.aws_cluster, project.aws_service, draw)
             clean == CleanupAfter(res, io)
         IN  ShadowStep("get_service_health",
                        <<project.aws_cluster, project.aws_service>>,
                        res, clean,
                        Step10_Poll(run, project, debug_build,
                                    res.out = "Ok",
                                    IF res.out = "Ok" THEN res.val
                                    ELSE ServiceHealth(0, 1, 1),
                                    clean.out = "Ok", TRUE, TRUE))

ShadowFinish ==
    /\ run.pc = "finish"
    /\ \E io \in 0..1 :
         LET clean == MockGit_cleanup_repository(config, shadow, fs,
                                                 run.repo_path, io)
         IN  /\ run' = Finish(run, clean.out = "Ok", TRUE, TRUE)
             /\ fs' = clean.fs
             /\ trace' = Append(trace,
                                TraceEntry("cleanup_repository",
                                           <<run.repo_path>>, clean,
                                           shadow, fs))
             /\ UNCHANGED <<tasks, project, debug_build, health_src, config, twin,
                            shadow>>

NextShadow ==
    \/ ShadowInitialize
    \/ ShadowClone
    \/ ShadowDetect
    \/ ShadowCommitInfo
    \/ ShadowBuild
    \/ ShadowLogin
    \/ ShadowPush
    \/ ShadowRegister
    \/ ShadowDeploy
    \/ ShadowMonitor
    \/ ShadowFinish

SpecShadow == InitShadow /\ [][NextShadow]_vars

(***************************************************************************)
(* Concurrent callers of the mock compute port.  deploy_service locks the  *)
(* ShadowState once.  get_service_health and ensure_ecr_repository lock it *)
(* to read, unlock, and lock it again to write (aws_mock.rs:62-73,         *)
(* 173-193), so each is two steps here when it writes and one when it      *)
(* returns what it read.                                                   *)
(***************************************************************************)
Regions == {"us-east-1", "eu-west-1"}

\* Calls started in one behaviour: enough for a deployment and a poll for
\* each task it wants.
RaceCalls == MaxDesired + 1

InitRace ==
    /\ project = Project("NextJs")
    /\ debug_build = FALSE
    /\ health_src = InitHealthSrc
    /\ run = InitRun
    /\ twin = InitRun
    /\ config = [failure_rate |-> 0]
    /\ shadow = ShadowState_new
    /\ fs = EmptyMap
    /\ trace = << >>
    /\ tasks \in [Tasks -> {Idle(r) : r \in Regions}]

InFlight == {t \in Tasks : tasks[t].pc # "idle"}

Started == Len(trace) + Cardinality(InFlight)

\* The call of task t returns.
Returns(t, op, args, res) ==
    /\ trace' = Append(trace, TraceEntry(op, args, res, shadow, fs))
    /\ shadow' = res.shadow
    /\ tasks' = [tasks EXCEPT ![t] = Idle(tasks[t].region)]
    /\ UNCHANGED <<project, debug_build, health_src, run, twin, config, fs>>

\* Task t has unlocked the ShadowState and has yet to lock it again.
Waits(t, pc, args, local) ==
    /\ tasks' = [tasks EXCEPT ![t] = [ pc     |-> pc,
                                       region |-> tasks[t].region,
                                       args   |-> args,
                                       local  |-> local,
                                       code   |-> << >>,
                                       held   |-> {} ]]
    /\ UNCHANGED <<project, debug_build, health_src, run, twin, config,
                   shadow, fs, trace>>

RaceDeployService(t) ==
    /\ tasks[t].pc = "idle"
    /\ Started < RaceCalls
    /\ \E n \in DesiredCounts, draw \in Draws :
         Returns(t, "deploy_service", <<ClusterProd, ServiceWeb, n>>,
                 MockAws_deploy_service(config, shadow, fs,
                     EcsDeploymentConfig(ClusterProd, ServiceWeb, TaskFamily, n),
                     TaskDefinitionArn(tasks[t].region, TaskFamily), draw))

\* get_service_health up to the end of get_service_status.  The call is
\* written to the trace with the number of calls that had returned when it
\* began.
RaceGetServiceStatus(t) ==
    /\ tasks[t].pc = "idle"
    /\ Started < RaceCalls
    /\ \E draw \in Draws :
         LET args == <<ClusterProd, ServiceWeb, Len(trace)>>
             found == get_service_status(shadow, ClusterProd, ServiceWeb)
             status == IF found # None THEN found[1]
                       ELSE ServiceStatus(0, 1, 1)
         IN  IF check_failure(config, draw)
             THEN Returns(t, "get_service_health", args,
                          MockResult("Err",
                              <<"EcsOperationFailed",
                                Simulated("get_service_health")>>,
                              shadow, fs))
             ELSE IF AdvanceStatus(status) = status
             THEN Returns(t, "get_service_health", args,
                          MockResult("Ok",
                              ServiceHealth(status.running_count,
                                            status.desired_count,
                                            status.pending_count),
                              shadow, fs))
             ELSE Waits(t, "set_service_status", args, Some(status))

\* get_service_health from set_service_status to its return.
RaceSetServiceStatus(t) ==
    /\ tasks[t].pc = "set_service_status"
    /\ LET new_status == AdvanceStatus(tasks[t].local[1])
       IN  Returns(t, "get_service_health", tasks[t].args,
                   MockResult("Ok",
                       ServiceHealth(new_status.running_count,
                                     new_status.desired_count,
                                     new_status.pending_count),
                       set_service_status(shadow, tasks[t].args[1],
                                          tasks[t].args[2], new_status),
                       fs))

\* ensure_ecr_repository up to the end of get_ecr_repository.
RaceGetEcrRepository(t) ==
    /\ tasks[t].pc = "idle"
    /\ Started < RaceCalls
    /\ \E repository_name \in {"app"}, draw \in Draws :
         LET found == get_ecr_repository(shadow, repository_name)
         IN  IF check_failure(config, draw)
             THEN Returns(t, "ensure_ecr_repository", <<repository_name>>,
                          MockResult("Err",
                              <<"EcsOperationFailed",
                                Simulated("ensure_ecr_repository")>>,
                              shadow, fs))
             ELSE IF found # None
             THEN Returns(t, "ensure_ecr_repository", <<repository_name>>,
                          MockResult("Ok", found[1], shadow, fs))
             ELSE Waits(t, "add_ecr_repository", <<repository_name>>, None)

\* ensure_ecr_repository from add_ecr_repository to its return.
RaceAddEcrRepository(t) ==
    /\ tasks[t].pc = "add_ecr_repository"
    /\ LET uri == EcrUri(tasks[t].region, tasks[t].args[1])
       IN  Returns(t, "ensure_ecr_repository", tasks[t].args,
                   MockResult("Ok", uri,
                       add_ecr_repository(shadow, tasks[t].args[1], uri),
                       fs))

NextRace ==
    \E t \in Tasks :
        \/ RaceDeployService(t)
        \/ RaceGetServiceStatus(t)
        \/ RaceSetServiceStatus(t)
        \/ RaceGetEcrRepository(t)
        \/ RaceAddEcrRepository(t)

SpecRace == InitRace /\ [][NextRace]_vars

(***************************************************************************)
(* The locks of concurrent run_deployment tasks.  The record store is an   *)
(* Arc<Mutex<Database>> (orchestrator.rs:44) and the ShadowState holds an  *)
(* Arc<Mutex<StateInner>> (state.rs:11-13).  A task is the sequence of     *)
(* lock and unlock operations that run_deployment makes when it is driven  *)
(* against the mock ports; a std::sync::Mutex guard is released where it   *)
(* goes out of scope.                                                      *)
(***************************************************************************)
Acquire(lock) == [op |-> "lock", lock |-> lock]

Release(lock) == [op |-> "unlock", lock |-> lock]

\* Every ShadowState accessor: "let inner = self.inner.lock().unwrap();",
\* one map operation, and the guard is dropped at the end of the accessor.
ShadowAccess == <<Acquire("shadow"), Release("shadow")>>

\* initialize_deployment: the guard lives to the end of the function, and
\* nothing is awaited or locked in between.
initialize_deployment_Locks == <<Acquire("database"), Release("database")>>

\* update_deployment that reads the ShadowState while it holds the store.
update_deployment_Locks_HoldsStore ==
    <<Acquire("database"), Acquire("shadow"), Release("shadow"),
      Release("database")>>

update_deployment_Locks == <<Acquire("database"), Release("database")>>

\* The ShadowState accesses of the mock operation behind each step.
PortLocks(step) ==
    CASE step = "clone_repository"         -> ShadowAccess
      [] step = "build_docker_image"       -> ShadowAccess
      [] step = "push_docker_image"        -> ShadowAccess \o ShadowAccess
      [] step = "register_task_definition" -> ShadowAccess
      [] step = "deploy_service"           -> ShadowAccess
      [] step = "get_service_health"       -> ShadowAccess \o ShadowAccess
      [] OTHER                             -> << >>

\* Polls of one run in the lock model.
LockPolls == 2

RECURSIVE Repeat(_, _)
Repeat(code, n) == IF n = 0 THEN << >> ELSE code \o Repeat(code, n - 1)

\* run_deployment on its successful path.
run_deployment_Locks ==
    initialize_deployment_Locks
    \o PortLocks("clone_repository")
    \o PortLocks("detect_framework")
    \o PortLocks("get_commit_info")
    \o update_deployment_Locks
    \o PortLocks("build_docker_image")
    \o PortLocks("docker_login_ecr")
    \o PortLocks("push_docker_image")
    \o PortLocks("register_task_definition")
    \o PortLocks("deploy_service")
    \o Repeat(PortLocks("get_service_health"), LockPolls)
    \o update_deployment_Locks
    \o PortLocks("cleanup_repository")

\* fail_deployment writes the failed record; cleanup takes no lock.
fail_deployment_Locks == update_deployment_Locks

Running(code) ==
    [ pc |-> "run_deployment", region |-> Region, args |-> << >>,
      local |-> << >>, code |-> code, held |-> {} ]

InitLocks ==
    /\ project = Project("NextJs")
    /\ debug_build = FALSE
    /\ health_src = InitHealthSrc
    /\ run = InitRun
    /\ twin = InitRun
    /\ config = [failure_rate |-> 0]
    /\ shadow = ShadowState_new
    /\ fs = EmptyMap
    /\ trace = << >>
    /\ tasks = [t \in Tasks |-> Running(run_deployment_Locks)]

Holders(lock) == {t \in Tasks : lock \in tasks[t].held}

\* The next lock operation of task t.
NextOp(t) == Head(tasks[t].code)

Wants(t, lock) ==
    /\ tasks[t].code # << >>
    /\ NextOp(t) = Acquire(lock)

LocksFrame ==
    UNCHANGED <<project, debug_build, health_src, run, twin, config, shadow,
                fs, trace>>

\* Mutex::lock returns once no task holds the lock.
LockAcquire(t) ==
    /\ tasks[t].code # << >>
    /\ NextOp(t).op = "lock"
    /\ Holders(NextOp(t).lock) = {}
    /\ tasks' = [tasks EXCEPT ![t].held = @ \cup {NextOp(t).lock},
                              ![t].code = Tail(@)]
    /\ LocksFrame

\* The guard is dropped.
LockRelease(t) ==
    /\ tasks[t].code # << >>
    /\ NextOp(t).op = "unlock"
    /\ tasks' = [tasks EXCEPT ![t].held = @ \ {NextOp(t).lock},
                              ![t].code = Tail(@)]
    /\ LocksFrame

\* A step returns an error: the run writes the failed record and returns.
StepFails(t) ==
    /\ tasks[t].pc = "run_deployment"
    /\ tasks[t].code # << >>
    /\ tasks[t].held = {}
    /\ tasks' = [tasks EXCEPT ![t].pc = "fail_deployment",
                              ![t].code = fail_deployment_Locks]
    /\ LocksFrame

NextLocks ==
    \E t \in Tasks :
        \/ LockAcquire(t)
        \/ LockRelease(t)
        \/ StepFails(t)

SpecLocks == InitLocks /\ [][NextLocks]_vars

(***************************************************************************)
(* Real source-control port (services/git_service.rs): framework           *)
(* detection, and the comparison of the mock with it on one checkout.      *)
(***************************************************************************)
GitService_detect_js_framework(package_json) ==
    IF ~package_json.valid
    THEN [out |-> "Err", val |-> <<"FrameworkDetectionFailed", << >>>>]
    ELSE LET all_deps == package_json.deps \cup package_json.dev_deps
         IN  IF "next" \in all_deps THEN [out |-> "Ok", val |-> "NextJs"]
             ELSE IF "react" \in all_deps THEN [out |-> "Ok", val |-> "React"]
             ELSE IF "vue" \in all_deps THEN [out |-> "Ok", val |-> "Vue"]
             ELSE IF "@angular/core" \in all_deps
             THEN [out |-> "Ok", val |-> "Angular"]
             ELSE [out |-> "Ok", val |-> "Node"]

\* detect_framework that looks for the Python manifests before package.json.
GitService_detect_framework_PythonFirst(sh, files, repo_path) ==
    IF \/ file_exists(files, repo_path, "requirements.txt")
       \/ file_exists(files, repo_path, "setup.py")
       \/ file_exists(files, repo_path, "pyproject.toml")
    THEN MockResult("Ok", "Python", sh, files)
    ELSE IF file_exists(files, repo_path, "package.json")
    THEN LET js == GitService_detect_js_framework(files[repo_path]["package.json"])
         IN  MockResult(js.out, js.val, sh, files)
    ELSE IF file_exists(files, repo_path, "Gemfile")
    THEN MockResult("Ok", "Ruby", sh, files)
    ELSE IF file_exists(files, repo_path, "go.mod")
    THEN MockResult("Ok", "Go", sh, files)
    ELSE IF file_exists(files, repo_path, "Cargo.toml")
    THEN MockResult("Ok", "Rust", sh, files)
    ELSE MockResult("Ok", "Other", sh, files)

\* The closure run by spawn_blocking; it has no panic, so the join succeeds.
GitService_detect_framework(sh, files, repo_path) ==
    IF file_exists(files, repo_path, "package.json")
    THEN LET js == GitService_detect_js_framework(files[repo_path]["package.json"])
         IN  MockResult(js.out, js.val, sh, files)
    ELSE IF \/ file_exists(files, repo_path, "requirements.txt")
            \/ file_exists(files, repo_path, "setup.py")
            \/ file_exists(files, repo_path, "pyproject.toml")
    THEN MockResult("Ok", "Python", sh, files)
    ELSE IF file_exists(files, repo_path, "Gemfile")
    THEN MockResult("Ok", "Ruby", sh, files)
    ELSE IF file_exists(files, repo_path, "go.mod")
    THEN MockResult("Ok", "Go", sh, files)
    ELSE IF file_exists(files, repo_path, "Cargo.toml")
    THEN MockResult("Ok", "Rust", sh, files)
    ELSE MockResult("Ok", "Other", sh, files)

Manifests == {"package.json", "requirements.txt", "setup.py",
              "pyproject.toml", "Gemfile", "go.mod", "Cargo.toml"}

JsDependencies == {"next", "react", "vue", "@angular/core", "express"}

JsDevDependencies == {"next", "@angular/core"}

PackageJsons ==
    {Text} \cup { [valid |-> TRUE, deps |-> d, dev_deps |-> v] :
                     d \in SUBSET JsDependencies, v \in SUBSET JsDevDependencies }

\* A checkout that holds the manifests of "present".
Checkout(present, package_json) ==
    [name \in present |-> IF name = "package.json" THEN package_json ELSE Text]

Checkouts ==
    { Checkout(present, p) : present \in SUBSET Manifests, p \in PackageJsons }

InitDetect ==
    /\ project = Project("NextJs")
    /\ debug_build = FALSE
    /\ health_src = InitHealthSrc
    /\ run = InitRun
    /\ twin = InitRun
    /\ config \in [failure_rate : FailureRates]
    /\ shadow = ShadowState_new
    /\ fs \in { Insert(EmptyMap, MockPath1, c) : c \in Checkouts }
    /\ trace = << >>
    /\ tasks = NoTasks

NotYetCalled(op) == \A i \in 1..Len(trace) : trace[i].op # op

DetectMock ==
    /\ NotYetCalled("detect_framework")
    /\ \E draw \in Draws :
         MockCallWithin(2, "detect_framework", <<MockPath1>>,
             MockGit_detect_framework(config, shadow, fs, MockPath1, draw))

DetectReal ==
    /\ NotYetCalled("GitService::detect_framework")
    /\ MockCallWithin(2, "GitService::detect_framework", <<MockPath1>>,
           GitService_detect_framework(shadow, fs, MockPath1))

NextDetect ==
    \/ DetectMock
    \/ DetectReal

SpecDetect == InitDetect /\ [][NextDetect]_vars

(***************************************************************************)
(* The mock clone_repository followed by the mock detect_framework on the  *)
(* checkout it fabricated, for repository URLs that hold one keyword, two  *)
(* keywords, or none.                                                      *)
(***************************************************************************)
UrlWords ==
    { <<"n","e","x","t">>, <<"r","e","a","c","t">>, <<"v","u","e">>,
      <<"a","n","g","u","l","a","r">>, <<"p","y","t","h","o","n">>,
      <<"f","l","a","s","k">>, <<"d","j","a","n","g","o">>,
      <<"n","o","d","e">>, <<"e","x","p","r","e","s","s">>, <<"g","o">>,
      <<"g","o","l","a","n","g">>, <<"r","u","s","t">>, <<"a","p","p">>,
      <<"N","e","x","t">>, <<"G","O">>, <<"R","u","s","t">> }

InferUrls ==
    UrlWords \cup { a \o <<"-">> \o b : a \in UrlWords, b \in UrlWords }

InitInfer ==
    /\ project \in { ShadowProject("NextJs", u) : u \in InferUrls }
    /\ debug_build = FALSE
    /\ health_src = InitHealthSrc
    /\ run = InitRun
    /\ twin = InitRun
    /\ config = [failure_rate |-> 0]
    /\ shadow = ShadowState_new
    /\ fs = EmptyMap
    /\ trace = << >>
    /\ tasks = NoTasks

InferClone ==
    /\ trace = << >>
    /\ \E temp_dir \in MockPaths, draw \in Draws, io \in 0..CloneIoOps :
         MockCallWithin(2, "clone_repository", <<project.repository_url>>,
             MockGit_clone_repository(config, shadow, fs,
                 project.repository_url, project.branch, temp_dir, draw, io))

InferDetect ==
    /\ Len(trace) = 1
    /\ trace[1].out = "Ok"
    /\ \E draw \in Draws :
         MockCallWithin(2, "detect_framework", <<trace[1].val>>,
             MockGit_detect_framework(config, shadow, fs, trace[1].val, draw))

NextInfer ==
    \/ InferClone
    \/ InferDetect

SpecInfer == InitInfer /\ [][NextInfer]_vars

(***************************************************************************)
(* deploy_service and get_service_health on clusters and services whose    *)
(* names may hold a colon; the names are passed through unchecked          *)
(* (aws_mock.rs:149-151, 174) to the key format of state.rs:98 and 105.    *)
(***************************************************************************)
ColonServices ==
    { << <<"a", ":", "b">>, <<"c">> >>,
      << <<"a">>, <<"b", ":", "c">> >>,
      << <<"a">>, <<"c">> >> }

KeysDeployService ==
    \E s \in ColonServices, n \in DesiredCounts, draw \in Draws :
        MockCallWithin(PollCalls, "deploy_service", <<s[1], s[2], n>>,
                 MockAws_deploy_service(config, shadow, fs,
                     EcsDeploymentConfig(s[1], s[2], TaskFamily, n),
                     TaskDefinitionArn(Region, TaskFamily), draw))

KeysGetServiceHealth ==
    \E s \in ColonServices, draw \in Draws :
        MockCallWithin(PollCalls, "get_service_health", <<s[1], s[2]>>,
                 MockAws_get_service_health(config, shadow, fs, s[1], s[2],
                                            draw))

NextKeys ==
    \/ KeysDeployService
    \/ KeysGetServiceHealth

SpecKeys == InitHealth /\ [][NextKeys]_vars

(***************************************************************************)
(* Projections of the log of a run.                                        *)
(***************************************************************************)
\* Calls on the ports made by the ten steps (the cleanup call is not a step).
StepCalls(r) ==
    SelectSeq(r.log, LAMBDA e : e.kind = "call"
                                /\ e.op # "cleanup_repository")

CleanupCalls(r) ==
    SelectSeq(r.log, LAMBDA e : e.kind = "call"
                                /\ e.op = "cleanup_repository")

\* Progress events delivered to the sink.
Events(r) == SelectSeq(r.log, LAMBDA e : e.kind = "emit")

FailureEvents(r) ==
    SelectSeq(r.log, LAMBDA e : e.kind = "emit"
                                /\ e.op = "Deployment failed")

\* Record-store writes that were carried out.
Writes(r) == SelectSeq(r.log, LAMBDA e : e.kind = "db" /\ e.ok)

Last(s) == s[Len(s)]

RecordCreated(r) == r.deployment.id \in DOMAIN r.deployments

Stored(r) == r.deployments[r.deployment.id]

PortOrder ==
    << "clone_repository", "detect_framework", "get_commit_info",
       "build_docker_image", "docker_login_ecr", "push_docker_image",
       "register_task_definition", "deploy_service", "get_service_health" >>

(***************************************************************************)
(* Claims.                                                                 *)
(***************************************************************************)
\* C1: the port calls of a run happen in the fixed order clone,
\* detect_framework, get_commit_info, build_docker_image, docker_login_ecr,
\* push_docker_image, register_task_definition, deploy_service,
\* get_service_health (repeated by the poll loop); a call that returned an
\* error is the last step call of the run.
C1_PortCallOrder ==
    LET c == StepCalls(run)
    IN  \A i \in 1..Len(c) :
            /\ c[i].op = PortOrder[Min(i, Len(PortOrder))]
            /\ (i < Len(c) => c[i].ok)

\* A run that returned after its push (sixth call) failed.
C1_Witness ==
    LET c == StepCalls(run)
    IN  /\ run.pc = "returned"
        /\ Len(c) = 6
        /\ ~c[6].ok

\* A step of 2-10 failed: a step call returned an error, the poll budget
\* ran out, the checkout path could not be passed to the build, or the
\* record-store write of step 4 failed.
PortCallFailed(r) == \E i \in 1..Len(r.log) :
    /\ r.log[i].kind = "call"
    /\ r.log[i].op # "cleanup_repository"
    /\ ~r.log[i].ok

Step4WriteFailed(r) == \E i \in 1..Len(r.log) :
    /\ r.log[i].kind = "db"
    /\ r.log[i].op = "update_deployment"
    /\ ~r.log[i].ok
    /\ r.log[i].arg = "Pending"

StepFailed(r) == PortCallFailed(r) \/ Step4WriteFailed(r)

CloneSucceeded(r) == \E i \in 1..Len(r.log) :
    /\ r.log[i].kind = "call"
    /\ r.log[i].op = "clone_repository"
    /\ r.log[i].ok

HealthyObserved(r) == \E i \in 1..Len(r.log) :
    /\ r.log[i].kind = "call"
    /\ r.log[i].op = "get_service_health"
    /\ r.log[i].arg = "healthy"

\* C2: when a step of 2-10 failed, the record stored when run_deployment
\* returns has status Failed, an error message and a completion timestamp.
C2_FailedStepStoresFailed ==
    (run.pc = "returned" /\ StepFailed(run)) =>
        /\ Stored(run).status = "Failed"
        /\ Stored(run).error_message # None
        /\ Stored(run).completed_at # None

\* C3: whenever run_deployment returns after the clone succeeded,
\* cleanup_repository was called.
C3_CleanupBeforeReturn ==
    (run.pc = "returned" /\ CloneSucceeded(run)) =>
        Len(CleanupCalls(run)) >= 1

\* C4: a run that returns an error after the record was created emitted
\* exactly one failure event, at percentage 0, as its last progress event.
C4_OneFailureEventLast ==
    (run.pc = "returned" /\ run.result.tag = "Err" /\ RecordCreated(run)) =>
        /\ Len(FailureEvents(run)) = 1
        /\ Last(Events(run)).op = "Deployment failed"
        /\ Last(Events(run)).num = 0

\* C5: when the port call of a step failed with error e, run_deployment
\* returns e itself.
C5_ReturnsThePortError ==
    \A i \in 1..Len(run.log) :
        ( /\ run.pc = "returned"
          /\ run.log[i].kind = "call"
          /\ run.log[i].op # "cleanup_repository"
          /\ ~run.log[i].ok )
        => run.result = PortError(run.log[i].op)

\* What a caller, the record store and the event sink see of a run.
Observable(r) ==
    [ pc          |-> r.pc,
      result      |-> r.result,
      deployments |-> r.deployments,
      events      |-> Events(r) ]

\* C6: two runs that get the same answers from everything but
\* cleanup_repository return the same result, store the same record and
\* emit the same events.
C6_CleanupOutcomeUnobservable == Observable(run) = Observable(twin)

\* Both runs returned, and cleanup succeeded in one and failed in the other.
C6_Witness ==
    /\ run.pc = "returned"
    /\ twin.pc = "returned"
    /\ Len(CleanupCalls(run)) = 1
    /\ Len(CleanupCalls(twin)) = 1
    /\ CleanupCalls(run)[1].ok # CleanupCalls(twin)[1].ok
    /\ PortCallFailed(run)

Has100(r) == \E i \in 1..Len(r.log) :
    r.log[i].kind = "emit" /\ r.log[i].num = 100

\* C7 as stated: once the poll observed a healthy snapshot, the run stores
\* Success with a completion timestamp, emits a last event at 100 and returns
\* the deployment id.
C7_Original ==
    (run.pc = "returned" /\ HealthyObserved(run)) =>
        /\ Stored(run).status = "Success"
        /\ Stored(run).completed_at # None
        /\ Has100(run)
        /\ run.result = Ok(DeploymentId)

\* C7 (amended): once the poll observed a healthy snapshot the run writes
\* Success with a completion timestamp; if the write is carried out the
\* stored record is Success with a timestamp and the run then emits the
\* event at 100, and if that is delivered it is the last thing the run does
\* before returning the deployment id.  A failed write returns the
\* record-store error and a failed emission the event error, with no event
\* at 100.  No run emits 100 or returns the id without a healthy snapshot.
C7_SuccessPath ==
    /\ (Has100(run) \/ run.result.tag = "Ok") => HealthyObserved(run)
    /\ (run.pc = "returned" /\ HealthyObserved(run)) =>
        \/ /\ run.result = Ok(DeploymentId)
           /\ Stored(run).status = "Success"
           /\ Stored(run).completed_at # None
           /\ Last(run.log).kind = "emit"
           /\ Last(run.log).num = 100
           /\ run.log[Len(run.log) - 1].kind = "db"
           /\ run.log[Len(run.log) - 1].ok
           /\ run.log[Len(run.log) - 1].arg = "Success"
        \/ /\ run.result = OrchestratorError("EventError", "emit failed")
           /\ Stored(run).status = "Success"
           /\ Stored(run).completed_at # None
           /\ ~Has100(run)
        \/ /\ run.result = OrchestratorError("DatabaseError",
                                             "update failed")
           /\ Stored(run).status = "Pending"
           /\ ~Has100(run)

\* A run that returned the deployment id.
C7_Witness ==
    /\ run.pc = "returned"
    /\ run.result = Ok(DeploymentId)
    /\ HealthyObserved(run)
    /\ Has100(run)

NonDecreasing(ev) ==
    \A i \in 1..Len(ev) : \A j \in i..Len(ev) : ev[i].num <= ev[j].num

\* C8: in a run that returned the deployment id the emitted percentages
\* never decrease and the last one is 100.
C8_SuccessfulRunMonotone ==
    (run.pc = "returned" /\ run.result.tag = "Ok") =>
        /\ NonDecreasing(Events(run))
        /\ Last(Events(run)).num = 100

TerminalStatuses == {"Success", "Failed", "RolledBack"}

\* C9: every stored deployment has completed_at set exactly when its status
\* is Success, Failed or RolledBack.
C9_CompletedIffTerminal ==
    \A id \in DOMAIN run.deployments :
        (run.deployments[id].completed_at # None)
            <=> (run.deployments[id].status \in TerminalStatuses)

\* A stored record that was written by fail_deployment.
C9_Witness ==
    /\ RecordCreated(run)
    /\ Stored(run).status = "Failed"
    /\ Stored(run).completed_at = Some(Now)

Rank(status) ==
    CASE status = "Pending" -> 0
      [] status = "InProgress" -> 1
      [] OTHER -> 2

\* C10: the statuses written for a deployment only move forward along
\* Pending -> InProgress -> {Success | Failed}, and after a terminal status
\* was written no write changes the status.
C10_StatusMonotone ==
    LET w == Writes(run)
    IN  \A i \in 1..Len(w) : \A j \in i..Len(w) :
            /\ Rank(w[i].arg) <= Rank(w[j].arg)
            /\ (w[i].arg \in TerminalStatuses => w[j].arg = w[i].arg)

\* A record that was created, updated at step 4 and written as Success.
C10_Witness ==
    LET w == Writes(run)
    IN  /\ Len(w) = 3
        /\ w[1].arg = "Pending"
        /\ w[3].arg = "Success"
        /\ Stored(run).status = "Success"

HealthPolls(r) ==
    SelectSeq(r.log, LAMBDA e : e.kind = "call"
                                /\ e.op = "get_service_health")

BudgetExhausted(r) == r.attempts > max_attempts

TimeoutError == OrchestratorError("AwsError", TimeoutMessage)

\* C11: a run calls get_service_health at most 30 times; when none of the
\* first 30 snapshots is healthy the loop stops with the timeout error
\* without a 31st call, so the loop always ends.
C11_PollBudget ==
    /\ Len(HealthPolls(run)) <= max_attempts
    /\ run.attempts <= max_attempts + 1
    /\ (run.pc = "monitor" => run.attempts = Len(HealthPolls(run)))
    /\ BudgetExhausted(run) =>
        /\ Returned(run)
        /\ Len(HealthPolls(run)) = max_attempts
        /\ \A i \in 1..max_attempts :
               HealthPolls(run)[i].ok /\ HealthPolls(run)[i].arg # "healthy"
        /\ run.result.tag = "Err"

\* A run that returned the timeout error after 30 polls.
C11_Witness ==
    /\ run.pc = "returned"
    /\ Len(HealthPolls(run)) = max_attempts
    /\ run.result = TimeoutError

TimeoutText == ErrorText("Service failed to become healthy", TimeoutError)

HealthCallFailed(r) == \E i \in 1..Len(r.log) :
    /\ r.log[i].kind = "call"
    /\ r.log[i].op = "get_service_health"
    /\ ~r.log[i].ok

FailureWritten(r) == \E i \in 1..Len(r.log) :
    /\ r.log[i].kind = "db"
    /\ r.log[i].ok
    /\ r.log[i].arg = "Failed"

Step4Written(r) == \E i \in 1..Len(r.log) :
    /\ r.log[i].kind = "db"
    /\ r.log[i].op = "update_deployment"
    /\ r.log[i].ok

\* C19: once the write of step 4 was carried out, the stored record carries
\* the commit SHA and the commit message the source-control port returned.
C19_StoredCommitInfo ==
    Step4Written(run) =>
        /\ Stored(run).commit_sha = run.sha
        /\ Stored(run).commit_message = Some(CommitMessage)

(***************************************************************************)
(* Claims about the mock ports.                                            *)
(***************************************************************************)
Calls == 1..Len(trace)

AlwaysFails == 100

\* C13: at failure rate 1.0 every operation of both mock ports returns an
\* error and leaves the Shadow State as it found it.
C13_EveryCallFailsAtRateOne ==
    \A i \in Calls :
        trace[i].rate = AlwaysFails =>
            /\ trace[i].out = "Err"
            /\ trace[i].after = trace[i].before

NeverFails == 0

EnsureOk(i) ==
    /\ trace[i].op = "ensure_ecr_repository"
    /\ trace[i].rate = NeverFails

EnsuredNames == { trace[i].args[1] : i \in { j \in Calls : EnsureOk(j) } }

\* C14: at failure rate 0 every ensure_ecr_repository call succeeds, calls
\* with the same name return the identical URI, a repeated call leaves the
\* Shadow State as it found it, and the registry map holds one entry, that
\* URI, for each name ensured.
C14_EnsureIdempotent ==
    /\ \A i \in Calls :
         EnsureOk(i) =>
            /\ trace[i].out = "Ok"
            /\ get_ecr_repository(trace[i].after, trace[i].args[1])
                  = Some(trace[i].val)
    /\ \A i, j \in Calls :
         (i < j /\ EnsureOk(i) /\ EnsureOk(j)
                /\ trace[i].args = trace[j].args) =>
            /\ trace[j].val = trace[i].val
            /\ trace[j].after = trace[j].before
    /\ config.failure_rate = NeverFails =>
         DOMAIN shadow.ecr_repositories = EnsuredNames

C14_Witness ==
    \E i, j \in Calls :
        /\ i < j
        /\ EnsureOk(i) /\ EnsureOk(j)
        /\ trace[i].args = trace[j].args
        /\ trace[i].out = "Ok" /\ trace[j].out = "Ok"

ServiceOf(i) == <<trace[i].args[1], trace[i].args[2]>>

Deployed(i) ==
    /\ trace[i].op = "deploy_service"
    /\ trace[i].rate = NeverFails
    /\ trace[i].out = "Ok"

DesiredOf(i) == trace[i].args[3]

PolledOk(i) ==
    /\ trace[i].op = "get_service_health"
    /\ trace[i].out = "Ok"

\* The polls of the service deployed by call d, up to call j.
PollsAfter(d, j) ==
    { i \in (d + 1)..j : PolledOk(i) /\ ServiceOf(i) = ServiceOf(d) }

\* Call j polls the service that call d deployed, and the service was not
\* deployed again in between.
PollOfDeploy(d, j) ==
    /\ d < j
    /\ Deployed(d)
    /\ PolledOk(j)
    /\ ServiceOf(j) = ServiceOf(d)
    /\ \A i \in (d + 1)..(j - 1) :
         ~(trace[i].op = "deploy_service" /\ ServiceOf(i) = ServiceOf(d))

C16_FirstPollNotHealthy ==
    \A d, j \in Calls :
        (/\ PollOfDeploy(d, j)
         /\ DesiredOf(d) >= 1
         /\ Cardinality(PollsAfter(d, j)) = 1) =>
            ~trace[j].val.is_healthy

NeverDeployed(j) ==
    \A i \in 1..(j - 1) :
        ~(trace[i].op = "deploy_service" /\ ServiceOf(i) = ServiceOf(j))

\* C17: get_service_health for a cluster/service pair that was never
\* deployed returns running = 0, desired = 1, pending = 1, not healthy.
C17_DefaultSnapshot ==
    \A j \in Calls :
        (PolledOk(j) /\ NeverDeployed(j)) =>
            trace[j].val = ServiceHealth(0, 1, 1)

CleanupCall(i) == trace[i].op = "cleanup_repository"

\* Calls i and i + 1 are cleanup_repository calls for the same path.
CleanupTwice(i) ==
    /\ i + 1 \in Calls
    /\ CleanupCall(i) /\ CleanupCall(i + 1)
    /\ trace[i].args = trace[i + 1].args

SameWorld(i, j) ==
    /\ trace[j].fs_after = trace[i].fs_after
    /\ trace[j].after = trace[i].after

\* C20 as stated: cleanup_repository of a path that does not exist returns
\* Ok, and two calls on the same checkout both return Ok and leave the state
\* that the first one left.
C20_Original ==
    /\ \A i \in Calls :
         (CleanupCall(i) /\ ~exists(trace[i].fs_before, trace[i].args[1])) =>
            trace[i].out = "Ok"
    /\ \A i \in Calls :
         CleanupTwice(i) =>
            /\ trace[i].out = "Ok"
            /\ trace[i + 1].out = "Ok"
            /\ SameWorld(i, i + 1)

\* C20: cleanup_repository of a path that does not exist returns Ok and
\* changes nothing; a call that returns Ok leaves the path absent and every
\* other directory and the Shadow State as they were; a call fails only
\* when the directory exists and its removal fails, and then changes
\* nothing; after a call that returned Ok, a second call on the same path
\* returns Ok and leaves the state the first one left.
C20_CleanupIdempotent ==
    /\ \A i \in Calls :
         CleanupCall(i) =>
            LET path == trace[i].args[1]
                was  == exists(trace[i].fs_before, path)
            IN  /\ trace[i].after = trace[i].before
                /\ ~was => /\ trace[i].out = "Ok"
                           /\ trace[i].fs_after = trace[i].fs_before
                /\ trace[i].out = "Ok" =>
                      trace[i].fs_after = Remove(trace[i].fs_before, path)
                /\ trace[i].out # "Ok" =>
                      /\ trace[i].out = "Err"
                      /\ was
                      /\ trace[i].fs_after = trace[i].fs_before
    /\ \A i \in Calls :
         (CleanupTwice(i) /\ trace[i].out = "Ok") =>
            /\ trace[i + 1].out = "Ok"
            /\ SameWorld(i, i + 1)

C20_Witness ==
    \E i \in Calls :
        /\ CleanupTwice(i)
        /\ exists(trace[i].fs_before, trace[i].args[1])
        /\ trace[i].out = "Ok"
        /\ trace[i + 1].out = "Ok"
        /\ ~exists(fs, trace[i].args[1])

\* A mock call failed because the disk refused an operation.
DiskFailed ==
    \E i \in Calls : trace[i].out = "Err" /\ trace[i].val[2] = IoError

\* C18: against the mock ports at failure rate 0 (and a disk that works),
\* a run_deployment that has ended has returned the deployment id, stored
\* the Deployment as Success with a completion timestamp, and emitted a
\* last event at 100.
C18_MockRunSucceeds ==
    (/\ config.failure_rate = NeverFails
     /\ ~DiskFailed
     /\ Returned(run)) =>
        /\ run.pc = "returned"
        /\ run.result.tag = "Ok"
        /\ Stored(run).status = "Success"
        /\ Stored(run).completed_at # None
        /\ Events(run) # << >>
        /\ Last(Events(run)).num = 100

\* Directories that call i created.
CreatedBy(i) == (DOMAIN trace[i].fs_after) \ (DOMAIN trace[i].fs_before)

\* C21: when the clone step fails, no checkout directory created by that
\* clone attempt is left on disk once run_deployment has returned.
C21_FailedCloneLeavesNoCheckout ==
    \A i \in Calls :
        (/\ trace[i].op = "clone_repository"
         /\ trace[i].out = "Err"
         /\ Returned(run)) =>
            CreatedBy(i) \cap DOMAIN fs = {}

\* C22: the framework handed to build_docker_image in step 5, and the
\* framework whose container port goes into the task and service
\* definitions of steps 8 and 9, is the framework that detect_framework
\* returned in step 3 of the same run.
C22_DetectedFrameworkUsed ==
    \A i \in 1..Len(run.log) :
        LET e == run.log[i]
        IN  /\ (e.kind = "call" /\ e.op = "build_docker_image") =>
                  e.arg = run.framework
            /\ (e.kind = "call"
                /\ e.op \in {"register_task_definition", "deploy_service"}) =>
                  e.num = get_framework_port(run.framework)

\* Every lookup of ShadowState on sh answers none, false or empty.
LooksEmpty(sh) ==
    /\ \A name \in RepositoryNames : get_ecr_repository(sh, name) = None
    /\ \A tag \in ImageTags \cup {EcrUri(Region, n) : n \in RepositoryNames} :
         ~has_docker_image(sh, tag)
    /\ get_task_definition(sh, TaskFamily) = None
    /\ \A s \in MockServices : get_service_status(sh, s[1], s[2]) = None
    /\ \A url \in RepoUrls : get_cloned_repo(sh, url) = None
    /\ get_logs(sh, LogGroup, LogStream, UsizeOfNegative) = << >>

\* C23: after reset, whatever mock operations came before it, the Shadow
\* State equals the initial empty state and every lookup answers none,
\* false or empty.
C23_ResetEmpties ==
    \A i \in Calls :
        trace[i].op = "reset" =>
            /\ trace[i].after = ShadowState_new
            /\ LooksEmpty(trace[i].after)

C23_Witness ==
    \E i \in Calls :
        /\ trace[i].op = "reset"
        /\ ~LooksEmpty(trace[i].before)
        /\ shadow = ShadowState_new

\* C24: a mock port operation that returns an error, whether the failure
\* was injected or not, leaves every map of the Shadow State as it was.
C24_ErrorLeavesStateUnchanged ==
    \A i \in Calls :
        trace[i].out = "Err" =>
            /\ trace[i].after.ecr_repositories = trace[i].before.ecr_repositories
            /\ trace[i].after.docker_images = trace[i].before.docker_images
            /\ trace[i].after.task_definitions = trace[i].before.task_definitions
            /\ trace[i].after.services = trace[i].before.services
            /\ trace[i].after.cloned_repos = trace[i].before.cloned_repos
            /\ trace[i].after.logs = trace[i].before.logs

C24_Witness ==
    \E i \in Calls :
        /\ trace[i].out = "Err"
        /\ trace[i].val[2] = Simulated(trace[i].op)
        /\ trace[i].before # ShadowState_new
        /\ shadow = trace[i].before

\* Completed polls of the service that call d deployed, begun after d
\* returned.
CompletedPolls(d) ==
    {i \in Calls : /\ i > d
                   /\ trace[i].args[3] >= d
                   /\ trace[i].op = "get_service_health"
                   /\ trace[i].out = "Ok"
                   /\ ServiceOf(i) = ServiceOf(d)}

\* C25: after deploy_service with desired_count N, once N polls of the
\* service have completed, however the polls of concurrent tasks
\* interleaved, the stored status is running N, desired N, pending 0.
C25_NoAdvanceLost ==
    \A d \in Calls :
        (/\ trace[d].op = "deploy_service"
         /\ trace[d].out = "Ok"
         /\ \A j \in Calls : j > d => /\ trace[j].op = "get_service_health"
                                       /\ trace[j].args[3] >= d
         /\ \A t \in InFlight : tasks[t].pc = "set_service_status"
                                     => tasks[t].args[3] >= d
         /\ Cardinality(CompletedPolls(d)) = DesiredOf(d)) =>
            get_service_status(shadow, ClusterProd, ServiceWeb)
                = Some(ServiceStatus(DesiredOf(d), DesiredOf(d), 0))

\* URIs that ensure_ecr_repository returned for a repository name.
EnsuredUris(name) ==
    {trace[i].val : i \in {j \in Calls : /\ trace[j].op = "ensure_ecr_repository"
                                         /\ trace[j].out = "Ok"
                                         /\ trace[j].args = <<name>>}}

\* C26: when ensure_ecr_repository calls for one name interleave, from
\* services that share one ShadowState, every caller receives the same URI
\* and no call replaces the URI stored for the name.
C26_OneUriPerName ==
    /\ \A name \in RepositoryNames : Cardinality(EnsuredUris(name)) <= 1
    /\ \A i \in Calls, name \in RepositoryNames :
           get_ecr_repository(trace[i].before, name) # None =>
               get_ecr_repository(trace[i].after, name)
                   = get_ecr_repository(trace[i].before, name)

\* Task t can take its next step now.
CanStep(t) ==
    /\ tasks[t].code # << >>
    /\ (NextOp(t).op = "lock" => Holders(NextOp(t).lock) = {})

\* C27: concurrent run_deployment tasks on one record store and one
\* ShadowState never deadlock: a task that waits for a lock holds none, a
\* task that holds a lock releases it as its next step, and while a task
\* has steps left some task can step.
C27_NoDeadlock ==
    /\ \A t \in Tasks :
          /\ Cardinality(tasks[t].held) <= 1
          /\ (tasks[t].code # << >> /\ NextOp(t).op = "lock") =>
                 tasks[t].held = {}
          /\ tasks[t].held # {} =>
                 /\ tasks[t].code # << >>
                 /\ NextOp(t).op = "unlock"
                 /\ NextOp(t).lock \in tasks[t].held
    /\ \A lock \in {"database", "shadow"} : Cardinality(Holders(lock)) <= 1
    /\ (\E t \in Tasks : tasks[t].code # << >>) => \E t \in Tasks : CanStep(t)

\* Two tasks contend for the ShadowState: one holds it while the other
\* waits for it.
C27_Witness ==
    \E t, u \in Tasks :
        /\ t # u
        /\ tasks[t].held = {"shadow"}
        /\ Wants(u, "shadow")
        /\ ~CanStep(u)

\* running <= desired and pending >= 0.
CountsInRange(s) ==
    /\ s.running_count <= s.desired_count
    /\ s.pending_count >= 0

\* C28: after any sequence of deploy_service and get_service_health calls,
\* with any desired_count, every stored service status and every snapshot
\* that get_service_health returned has running <= desired and pending >= 0.
C28_CountsInRange ==
    /\ \A k \in DOMAIN shadow.services : CountsInRange(shadow.services[k])
    /\ \A i \in Calls : PolledOk(i) => CountsInRange(trace[i].val)

PollEvent(e) ==
    /\ e.kind = "emit"
    /\ e.op = "Waiting for service to stabilize"

\* min(99, 90 + floor(10 * running / max(desired, 1))), in unbounded integers.
ExpectedPollProgress(health) ==
    Min(99, 90 + ((10 * health.running_count)
                      \div Max(health.desired_count, 1)))

\* C29: every progress event of the poll loop carries
\* min(99, 90 + floor(10 * running / max(desired, 1))), a percentage in
\* 90..99, whatever snapshot the compute port returned, and computing it
\* never overflows the 8-bit percentage.
C29_PollProgressInRange ==
    /\ \A i \in 1..Len(run.log) :
          PollEvent(run.log[i]) => run.log[i].num \in 90..99
    /\ (run.log # << >> /\ PollEvent(Last(run.log))) =>
          Last(run.log).num = ExpectedPollProgress(health_src.last)
    /\ ~(/\ run.pc = "panicked"
         /\ run.log # << >>
         /\ Last(run.log).kind = "call"
         /\ Last(run.log).op = "get_service_health")

\* Call i failed because check_failure injected a failure.
Injected(i) ==
    /\ trace[i].out = "Err"
    /\ trace[i].val[2] = Simulated(trace[i].op)

\* C30: on one checkout, whatever manifest files it holds and whatever its
\* package manifest contains, the mock detect_framework, when no failure is
\* injected, returns what the real detect_framework returns: the same
\* framework or the same error.
C30_MockDetectsAsReal ==
    \A i, j \in Calls :
        (/\ trace[i].op = "detect_framework"
         /\ trace[j].op = "GitService::detect_framework"
         /\ ~Injected(i)) =>
            /\ trace[i].out = trace[j].out
            /\ trace[i].val = trace[j].val

\* Both were asked about a checkout with a package manifest that names
\* react and, as a development dependency, next, next to a Python manifest.
C30_Witness ==
    /\ Len(trace) = 2
    /\ \E i \in Calls : trace[i].op = "detect_framework" /\ ~Injected(i)
    /\ \A i \in Calls : trace[i].out = "Ok" /\ trace[i].val = "NextJs"
    /\ file_exists(fs, MockPath1, "requirements.txt")
    /\ "next" \notin fs[MockPath1]["package.json"].deps
    /\ "react" \in fs[MockPath1]["package.json"].deps

\* The first entry of a priority list whose mark is among "present"; the
\* fallback when none is.
FirstOf(priority, present, fallback) ==
    LET hits == {k \in 1..Len(priority) : priority[k][1] \cap present # {}}
    IN  IF hits = {} THEN fallback
        ELSE priority[CHOOSE k \in hits : \A m \in hits : k <= m][2]

JsPriority ==
    << <<{"next"}, "NextJs">>, <<{"react"}, "React">>, <<{"vue"}, "Vue">>,
       <<{"@angular/core"}, "Angular">> >>

ManifestPriority ==
    << <<{"requirements.txt", "setup.py", "pyproject.toml"}, "Python">>,
       <<{"Gemfile"}, "Ruby">>, <<{"go.mod"}, "Go">>,
       <<{"Cargo.toml"}, "Rust">> >>

\* The framework the priority rule gives for a checkout.
FrameworkByPriority(checkout) ==
    IF "package.json" \in DOMAIN checkout
    THEN FirstOf(JsPriority,
                 checkout["package.json"].deps
                     \cup checkout["package.json"].dev_deps, "Node")
    ELSE FirstOf(ManifestPriority, DOMAIN checkout, "Other")

RealDetect(i) == trace[i].op = "GitService::detect_framework"

CheckoutOf(i) == trace[i].fs_before[trace[i].args[1]]

Unparsable(checkout) ==
    /\ "package.json" \in DOMAIN checkout
    /\ ~checkout["package.json"].valid

UrlPriority ==
    << <<{<<"n","e","x","t">>}, "NextJs">>,
       <<{<<"r","e","a","c","t">>}, "React">>,
       <<{<<"v","u","e">>}, "Vue">>,
       <<{<<"a","n","g","u","l","a","r">>}, "Angular">>,
       <<{<<"p","y","t","h","o","n">>, <<"f","l","a","s","k">>,
          <<"d","j","a","n","g","o">>}, "Python">>,
       <<{<<"n","o","d","e">>, <<"e","x","p","r","e","s","s">>}, "Node">>,
       <<{<<"g","o">>, <<"g","o","l","a","n","g">>}, "Go">>,
       <<{<<"r","u","s","t">>}, "Rust">> >>

\* The keywords that occur in a URL, whatever the case of its letters.
WordsIn(url) ==
    {w \in UNION {UrlPriority[k][1] : k \in 1..Len(UrlPriority)} :
        Contains(to_lowercase(url), w)}

InferredFromUrl(url) == FirstOf(UrlPriority, WordsIn(url), "Node")

\* C32: at failure rate 0, detect_framework on the checkout that the mock
\* clone_repository produced for a URL returns the framework inferred from
\* the URL by next > react > vue > angular > python/flask/django >
\* node/express > go/golang > rust > default Node.
C32_DetectsInferredFramework ==
    \A i, j \in Calls :
        (/\ i < j
         /\ trace[i].op = "clone_repository" /\ trace[i].out = "Ok"
         /\ trace[j].op = "detect_framework"
         /\ trace[j].args = <<trace[i].val>>) =>
            /\ trace[j].out = "Ok"
            /\ trace[j].val = InferredFromUrl(trace[i].args[1])

\* A URL that holds "django" (and so "go") and "vue" was cloned and its
\* checkout detected as Vue.
C32_Witness ==
    /\ Len(trace) = 2
    /\ trace[1].args = << <<"d","j","a","n","g","o","-","v","u","e">> >>
    /\ trace[2].op = "detect_framework"
    /\ trace[2].val = "Vue"

FetchedOk(i) ==
    /\ trace[i].op = "fetch_logs"
    /\ trace[i].out = "Ok"

\* The lines recorded for the log group and stream of the model.
LinesIn(sh) ==
    IF Key(LogGroup, LogStream) \in DOMAIN sh.logs
    THEN sh.logs[Key(LogGroup, LogStream)]
    ELSE << >>

\* C33: once lines are recorded for a log-group/stream key, a fetch_logs
\* call with any limit, 0 included, adds nothing to the lines of the key.
C33_SynthesizedOnce ==
    \A i \in Calls :
        (FetchedOk(i) /\ LinesIn(trace[i].before) # << >>) =>
            LinesIn(trace[i].after) = LinesIn(trace[i].before)

\* The last n lines of a list, in order.
LastLines(l, n) == SubSeq(l, Len(l) - Min(n, Len(l)) + 1, Len(l))

\* C34: fetch_logs returns at most limit lines, the most recently recorded
\* ones of the key in recording order, on the first fetch and on later ones.
C34_AtMostLimitMostRecent ==
    \A i \in Calls :
        (FetchedOk(i) /\ trace[i].args[1] >= 0) =>
            /\ Len(trace[i].val) <= trace[i].args[1]
            /\ trace[i].val = LastLines(LinesIn(trace[i].after), trace[i].args[1])

\* Call i asked the mock to synthesize a SHA for a checkout path, and no
\* failure was injected.
Synthesizes(i) ==
    /\ \/ trace[i].op = "get_latest_commit_sha"
       \/ trace[i].op = "get_commit_info" /\ trace[i].args[2] = None
    /\ trace[i].out # "Err"

ShaOf(i) ==
    IF trace[i].op = "get_commit_info" THEN trace[i].val.sha ELSE trace[i].val

\* C35: for every checkout path, get_commit_info without a supplied SHA and
\* get_latest_commit_sha return a SHA of exactly 16 characters, the same
\* one on every call for the same path.
C35_SixteenCharSha ==
    /\ \A i \in Calls :
          Synthesizes(i) => trace[i].out = "Ok" /\ Len(ShaOf(i)) = ShaLen
    /\ \A i, j \in Calls :
          (/\ Synthesizes(i) /\ Synthesizes(j)
           /\ trace[i].out = "Ok" /\ trace[j].out = "Ok"
           /\ trace[i].args[1] = trace[j].args[1]) => ShaOf(i) = ShaOf(j)

\* C36: get_commit_info with a supplied SHA of any length returns the
\* commit info with the supplied SHA or a typed error; it never panics.
C36_SuppliedShaNeverPanics ==
    \A i \in Calls :
        (trace[i].op = "get_commit_info" /\ trace[i].args[2] # None) =>
            /\ trace[i].out \in {"Ok", "Err"}
            /\ trace[i].out = "Ok" =>
                  trace[i].val.sha
                      = SubSeq(trace[i].args[2][1], 1, Len(trace[i].val.sha))

\* C37: whatever the length of the SHA in the CommitInfo that the
\* source-control port returned, fewer than 8 characters included, the run
\* does not abort: it continues or ends through the failure path.
C37_ShortShaHandled ==
    (run.sha # << >> /\ Len(run.sha) < 8) => run.pc # "panicked"

\* C38: a deploy_service or get_service_health call on one (cluster,
\* service) pair leaves the status stored for every other pair as it was,
\* for all names, names that hold ':' included.
C38_OtherServicesUntouched ==
    \A i \in Calls, s \in ColonServices :
        s # ServiceOf(i) =>
            get_service_status(trace[i].after, s[1], s[2])
                = get_service_status(trace[i].before, s[1], s[2])

\* The status stored for the service the concurrent tasks call.
StoredStatus(sh) == get_service_status(sh, ClusterProd, ServiceWeb)

\* C39: every status that deploy_service and get_service_health write has
\* running + pending = desired, however the calls of concurrent tasks on
\* the service interleave.
C39_CountsAddUp ==
    /\ \A k \in DOMAIN shadow.services :
          shadow.services[k].running_count + shadow.services[k].pending_count
              = shadow.services[k].desired_count
    /\ \A t \in Tasks :
          tasks[t].pc = "set_service_status" =>
              LET new_status == AdvanceStatus(tasks[t].local[1])
              IN  new_status.running_count + new_status.pending_count
                      = new_status.desired_count

\* A poll wrote from a read that another call had overtaken: it found
\* tasks pending and left the stored status as it was.
C39_Witness ==
    \E i \in Calls :
        /\ PolledOk(i)
        /\ StoredStatus(trace[i].before) # None
        /\ StoredStatus(trace[i].before)[1].pending_count > 0
        /\ StoredStatus(trace[i].before)[1].running_count
               < StoredStatus(trace[i].before)[1].desired_count
        /\ StoredStatus(trace[i].after) = StoredStatus(trace[i].before)

====
